---------------------------- MODULE Spec2Model ----------------------------
(***************************************************************************)
(* RouteAbout: the Neovim command language front end (route_about.stvim).  *)
(*                                                                         *)
(* A Python str is a sequence of one-character strings, so that "contains  *)
(* the substring Error", str.strip, str.split and f-string formatting are  *)
(* computed and not assumed.  The editor session (pynvim / Neovim) is the  *)
(* record `session`; every call the handlers make on it is an operator     *)
(* that may raise.  An exception is an outcome record with raised = TRUE.  *)
(***************************************************************************)
EXTENDS Integers, Sequences, FiniteSets, TLC

\* ---------------------------------------------------------------- bounds
\* The longest buffer an INSERT may produce.
MaxBuf == 3
\* The largest line number written in a command.
MaxLine == 4
\* The longest list handed to execute_batch.
MaxBatch == 2

\* --------------------------------------------------------------- Python str
NL == "\n"

\* `sub in s`
Contains(s, sub) ==
    \E i \in 0..(Len(s) - Len(sub)) : SubSeq(s, i + 1, i + Len(sub)) = sub

StartsWith(s, p) == Len(s) >= Len(p) /\ SubSeq(s, 1, Len(p)) = p
EndsWith(s, p) == Len(s) >= Len(p) /\ SubSeq(s, Len(s) - Len(p) + 1, Len(s)) = p

DigitChars == <<"0", "1", "2", "3", "4", "5", "6", "7", "8", "9">>

\* str(n) of an int, as an f-string formats it
RECURSIVE IntStr(_)
IntStr(n) ==
    IF n < 0 THEN <<"-">> \o IntStr(0 - n)
    ELSE IF n < 10 THEN <<DigitChars[n + 1]>>
    ELSE IntStr(n \div 10) \o <<DigitChars[(n % 10) + 1]>>

DigitVal(c) == CHOOSE d \in 0..9 : DigitChars[d + 1] = c

\* int(s) of a string of decimal digits
RECURSIVE IntOf(_)
IntOf(s) ==
    IF Len(s) = 0 THEN 0
    ELSE 10 * IntOf(SubSeq(s, 1, Len(s) - 1)) + DigitVal(s[Len(s)])

\* s.split(c): always at least one piece
RECURSIVE SplitOn(_, _)
SplitOn(s, c) ==
    IF \A i \in 1..Len(s) : s[i] # c THEN <<s>>
    ELSE LET k == CHOOSE i \in 1..Len(s) :
                      s[i] = c /\ \A j \in 1..(i - 1) : s[j] # c
         IN <<SubSeq(s, 1, k - 1)>> \o SplitOn(SubSeq(s, k + 1, Len(s)), c)

\* s.strip(chars): every leading and trailing character in chars is removed
RECURSIVE LStrip(_, _)
LStrip(s, chars) ==
    IF Len(s) > 0 /\ s[1] \in chars THEN LStrip(Tail(s), chars) ELSE s

RECURSIVE RStrip(_, _)
RStrip(s, chars) ==
    IF Len(s) > 0 /\ s[Len(s)] \in chars
    THEN RStrip(SubSeq(s, 1, Len(s) - 1), chars) ELSE s

Strip(s, chars) == RStrip(LStrip(s, chars), chars)

\* s[3:-3]
Slice3(s) == SubSeq(s, 4, Len(s) - 3)

\* list.insert written as an assignment: the element at the index is replaced
ListInsertOverwrites(l, idx, x) ==
    LET n == Len(l)
        i == IF idx < 0 THEN (IF idx + n < 0 THEN 0 ELSE idx + n)
             ELSE IF idx > n THEN n ELSE idx
    IN SubSeq(l, 1, i) \o <<x>> \o SubSeq(l, i + 2, n)

\* list.insert(idx, x): a negative index counts from the end, and an index out
\* of range is clamped to the nearest end
ListInsert(l, idx, x) ==
    LET n == Len(l)
        i == IF idx < 0 THEN (IF idx + n < 0 THEN 0 ELSE idx + n)
             ELSE IF idx > n THEN n ELSE idx
    IN SubSeq(l, 1, i) \o <<x>> \o SubSeq(l, i + 1, n)

\* for i, text_line in enumerate(text_lines): current_lines.insert(base + i, text_line)
RECURSIVE InsertLoop(_, _, _, _)
InsertLoop(current_lines, base, text_lines, i) ==
    IF i >= Len(text_lines) THEN current_lines
    ELSE InsertLoop(ListInsert(current_lines, base + i, text_lines[i + 1]),
                    base, text_lines, i + 1)

\* ------------------------------------------------------- the editor session
\* The session is what the handlers reach through pynvim: the buffer (a list
\* of lines), the cursor (1-based line, column), the mode and, in a visual
\* mode, the line the selection is anchored at.  A machine m carries the
\* session through one execute or execute_batch call together with the calls
\* made so far (calls), the handler returns so far (handlers) and the number
\* f of the session call that fails for a reason of the session's own (the
\* editor went away, an RPC error); f = 0 means none does.

ModeNormal == <<"n">>
ModeVisualLine == <<"V">>
ModeVisualChar == <<"v">>
\* the one character CTRL-V (0x16), which get_mode reports for block-wise
\* visual mode
CtrlV == "<C-V>"
ModeVisualBlock == <<CtrlV>>
VisualModes == {ModeVisualChar, ModeVisualLine, ModeVisualBlock}

FaultMsg == <<"s","e","s","s","i","o","n"," ","c","a","l","l"," ","f","a","i","l","e","d">>

\* exc: the class of the exception an operation is left by
Ok(m, ret) == [m |-> m, raised |-> FALSE, exc |-> "", msg |-> <<>>, ret |-> ret]
RaiseOf(m, exc, msg) == [m |-> m, raised |-> TRUE, exc |-> exc, msg |-> msg, ret |-> <<>>]
Raise(m, msg) == RaiseOf(m, "Exception", msg)

Logged(m, api, n, t, l, ok) ==
    [m EXCEPT !.calls = Append(@, [api |-> api, n |-> n, t |-> t, l |-> l, ok |-> ok])]

Faulted(m) == Len(m.calls) + 1 = m.f

\* Neovim keeps the cursor inside the buffer when lines go away.
ClampCursor(s) ==
    LET top == IF Len(s.buf) = 0 THEN 1 ELSE Len(s.buf)
    IN [s EXCEPT !.line = IF @ > top THEN top ELSE @,
                 !.anchor = IF @ > top THEN top ELSE @]

\* nvim.api.win_set_cursor(0, [line, col]): rejected outside the buffer
win_set_cursor(m, line, col) ==
    IF Faulted(m)
    THEN Raise(Logged(m, "win_set_cursor", <<line, col>>, <<>>, <<>>, FALSE), FaultMsg)
    ELSE IF line < 1 \/ line > Len(m.s.buf)
    THEN Raise(Logged(m, "win_set_cursor", <<line, col>>, <<>>, <<>>, FALSE),
               <<"C","u","r","s","o","r"," ","p","o","s","i","t","i","o","n"," ","o","u","t","s","i","d","e"," ","b","u","f","f","e","r">>)
    ELSE Ok([Logged(m, "win_set_cursor", <<line, col>>, <<>>, <<>>, TRUE)
                EXCEPT !.s.line = line, !.s.col = col], <<>>)

\* nvim.api.win_get_cursor(0)
win_get_cursor(m) ==
    IF Faulted(m)
    THEN Raise(Logged(m, "win_get_cursor", <<>>, <<>>, <<>>, FALSE), FaultMsg)
    ELSE Ok(Logged(m, "win_get_cursor", <<>>, <<>>, <<>>, TRUE), <<m.s.line, m.s.col>>)

\* nvim.current.buffer
current_buffer(m) ==
    IF Faulted(m)
    THEN Raise(Logged(m, "current_buffer", <<>>, <<>>, <<>>, FALSE), FaultMsg)
    ELSE Ok(Logged(m, "current_buffer", <<>>, <<>>, <<>>, TRUE), <<>>)

\* buffer[:]
buffer_get_all(m) ==
    IF Faulted(m)
    THEN Raise(Logged(m, "buf_get_lines", <<0, -1>>, <<>>, <<>>, FALSE), FaultMsg)
    ELSE Ok(Logged(m, "buf_get_lines", <<0, -1>>, <<>>, <<>>, TRUE), m.s.buf)

\* buffer[:] = lines
buffer_set_all(m, lines) ==
    IF Faulted(m)
    THEN Raise(Logged(m, "buf_set_lines", <<0, -1>>, <<>>, lines, FALSE), FaultMsg)
    ELSE Ok([Logged(m, "buf_set_lines", <<0, -1>>, <<>>, lines, TRUE)
                EXCEPT !.s = ClampCursor([@ EXCEPT !.buf = lines])], <<>>)

\* nvim.api.buf_set_lines(0, start, end, False, lines): with strict indexing
\* off a negative index counts from one past the end, an index out of range
\* is clamped, and a start above the end is refused
buf_set_lines(m, start, end, lines) ==
    LET n == Len(m.s.buf)
        norm(i) == IF i < 0 THEN n + 1 + i ELSE i
        clamp(i) == IF i < 0 THEN 0 ELSE IF i > n THEN n ELSE i
        a == clamp(norm(start))
        b == clamp(norm(end))
    IN IF Faulted(m)
       THEN Raise(Logged(m, "buf_set_lines", <<start, end>>, <<>>, lines, FALSE), FaultMsg)
       ELSE IF a > b
       THEN Raise(Logged(m, "buf_set_lines", <<start, end>>, <<>>, lines, FALSE),
                  <<"'","s","t","a","r","t","'"," ","i","s"," ","h","i","g","h","e","r"," ","t","h","a","n"," ","'","e","n","d","'">>)
       ELSE Ok([Logged(m, "buf_set_lines", <<start, end>>, <<>>, lines, TRUE)
                   EXCEPT !.s = ClampCursor([@ EXCEPT !.buf =
                       SubSeq(m.s.buf, 1, a) \o lines \o SubSeq(m.s.buf, b + 1, n)])],
               <<>>)

\* nvim.api.get_mode()["mode"]
get_mode(m) ==
    IF Faulted(m)
    THEN Raise(Logged(m, "get_mode", <<>>, <<>>, <<>>, FALSE), FaultMsg)
    ELSE Ok(Logged(m, "get_mode", <<>>, <<>>, <<>>, TRUE), m.s.mode)

\* The first place at or after column c (0-based) of line where pat starts, or -1.
FindFrom(line, pat, c) ==
    IF \E i \in c..(Len(line) - Len(pat)) : SubSeq(line, i + 1, i + Len(pat)) = pat
    THEN CHOOSE i \in c..(Len(line) - Len(pat)) :
             /\ SubSeq(line, i + 1, i + Len(pat)) = pat
             /\ \A j \in c..(i - 1) : SubSeq(line, j + 1, j + Len(pat)) # pat
    ELSE -1

\* nvim.call("search", pattern, "nW"): the line of the first match after the
\* cursor, not wrapping at the end of the buffer and not moving; 0 for none
SearchLine(s, pat) ==
    LET hits == {k \in 1..Len(s.buf) :
                    \/ k = s.line /\ FindFrom(s.buf[k], pat, s.col + 1) >= 0
                    \/ k > s.line /\ FindFrom(s.buf[k], pat, 0) >= 0}
    IN IF hits = {} THEN 0 ELSE CHOOSE k \in hits : \A j \in hits : k <= j

call_search(m, pat, flags) ==
    IF Faulted(m)
    THEN Raise(Logged(m, "call_search", <<>>, pat, <<flags>>, FALSE), FaultMsg)
    ELSE IF Len(pat) = 0
    THEN Raise(Logged(m, "call_search", <<>>, pat, <<flags>>, FALSE),
               <<"E","3","5",":"," ","N","o"," ","p","r","e","v","i","o","u","s"," ","r","e","g","u","l","a","r"," ","e","x","p","r","e","s","s","i","o","n">>)
    ELSE Ok(Logged(m, "call_search", <<>>, pat, <<flags>>, TRUE), SearchLine(m.s, pat))

\* The text a replacement string stands for: & is the text that matched.
RECURSIVE SubReplacement(_, _)
SubReplacement(rep, matched) ==
    IF Len(rep) = 0 THEN rep
    ELSE (IF rep[1] = "&" THEN matched ELSE <<rep[1]>>)
             \o SubReplacement(Tail(rep), matched)

\* line with every occurrence of old replaced by what new stands for, left
\* to right
RECURSIVE ReplaceAll(_, _, _)
ReplaceAll(line, old, new) ==
    IF Len(line) = 0 THEN line
    ELSE IF StartsWith(line, old)
    THEN SubReplacement(new, old)
             \o ReplaceAll(SubSeq(line, Len(old) + 1, Len(line)), old, new)
    ELSE <<line[1]>> \o ReplaceAll(Tail(line), old, new)

\* normal! V
NormalV(s) ==
    IF s.mode = ModeVisualLine THEN [s EXCEPT !.mode = ModeNormal, !.anchor = 0]
    ELSE [s EXCEPT !.mode = ModeVisualLine,
                   !.anchor = IF s.mode = ModeNormal THEN s.line ELSE @]

\* line without its first character, if it has one
DropFirst(line) == IF Len(line) = 0 THEN line ELSE Tail(line)

\* The buffer without the selection.  The cursor and the start of the
\* selection are in column 0 of their lines lo..hi: a line-wise selection is
\* the lines, a character-wise one runs from the first character of line lo
\* to the first of line hi, a block-wise one is the first column of the lines.
SelectionDeleted(s, lo, hi) ==
    IF s.mode = ModeVisualLine
    THEN SubSeq(s.buf, 1, lo - 1) \o SubSeq(s.buf, hi + 1, Len(s.buf))
    ELSE IF s.mode = ModeVisualChar
    THEN SubSeq(s.buf, 1, lo - 1) \o <<DropFirst(s.buf[hi])>>
             \o SubSeq(s.buf, hi + 1, Len(s.buf))
    ELSE [k \in 1..Len(s.buf) |->
             IF lo <= k /\ k <= hi THEN DropFirst(s.buf[k]) ELSE s.buf[k]]

\* normal! d on a selection: the selection goes, the editor is back in
\* normal mode; in normal mode d alone is an incomplete command and is dropped
NormalD(s) ==
    IF s.mode = ModeNormal \/ Len(s.buf) = 0 THEN s
    ELSE LET lo == IF s.anchor < s.line THEN s.anchor ELSE s.line
             hi == IF s.anchor < s.line THEN s.line ELSE s.anchor
         IN ClampCursor([s EXCEPT !.buf = SelectionDeleted(s, lo, hi),
                                  !.line = lo, !.col = 0,
                                  !.mode = ModeNormal, !.anchor = 0])

\* normal! x: the character under the cursor goes, if there is one; in a
\* visual mode x deletes the selection as d does
NormalX(s) ==
    IF s.mode # ModeNormal THEN NormalD(s)
    ELSE IF s.line > Len(s.buf) \/ s.col >= Len(s.buf[s.line]) THEN s
    ELSE [s EXCEPT !.buf[s.line] =
             SubSeq(@, 1, s.col) \o SubSeq(@, s.col + 2, Len(@))]

\* :/pattern  the next line after the cursor line that matches, wrapping around
ExSearch(m, cmd) ==
    LET pat == Tail(cmd)
        s == m.s
        n == Len(s.buf)
        order == [i \in 1..n |-> ((s.line + i - 1) % n) + 1]
        hits == {i \in 1..n : Contains(s.buf[order[i]], pat)}
    IN IF Len(pat) = 0 \/ hits = {}
       THEN Raise(Logged(m, "command", <<>>, cmd, <<>>, FALSE),
                  <<"E","4","8","6",":"," ","P","a","t","t","e","r","n"," ","n","o","t"," ","f","o","u","n","d",":"," ">> \o pat)
       ELSE Ok([Logged(m, "command", <<>>, cmd, <<>>, TRUE)
                   EXCEPT !.s.line = order[CHOOSE i \in hits : \A j \in hits : i <= j],
                          !.s.col = 0], <<>>)

\* :%s/old/new/g  the delimiter after s splits the command into pattern,
\* replacement and flags
ExSubstitute(m, cmd) ==
    LET parts == SplitOn(SubSeq(cmd, 4, Len(cmd)), "/")
        s == m.s
    IN IF Len(parts) # 3 \/ parts[3] # <<"g">>
       THEN Raise(Logged(m, "command", <<>>, cmd, <<>>, FALSE), <<"E","4","8","8",":"," ","T","r","a","i","l","i","n","g"," ","c","h","a","r","a","c","t","e","r","s">>)
       ELSE LET pat == parts[1]
                rep == parts[2]
                hits == {k \in 1..Len(s.buf) : Contains(s.buf[k], pat)}
            IN IF Len(pat) = 0 \/ hits = {}
               THEN Raise(Logged(m, "command", <<>>, cmd, <<>>, FALSE),
                          <<"E","4","8","6",":"," ","P","a","t","t","e","r","n"," ","n","o","t"," ","f","o","u","n","d",":"," ">> \o pat)
               ELSE Ok([Logged(m, "command", <<>>, cmd, <<>>, TRUE)
                           EXCEPT !.s.buf = [k \in 1..Len(s.buf) |->
                                                ReplaceAll(s.buf[k], pat, rep)],
                                  !.s.line = CHOOSE k \in hits : \A j \in hits : j <= k,
                                  !.s.col = 0], <<>>)

\* nvim.command(cmd): the Ex command line cmd is run by the editor
command(m, cmd) ==
    IF Faulted(m)
    THEN Raise(Logged(m, "command", <<>>, cmd, <<>>, FALSE), FaultMsg)
    ELSE IF cmd = <<"n","o","r","m","a","l","!"," ","V">>
    THEN Ok([Logged(m, "command", <<>>, cmd, <<>>, TRUE) EXCEPT !.s = NormalV(@)], <<>>)
    ELSE IF cmd = <<"n","o","r","m","a","l","!"," ","d">>
    THEN Ok([Logged(m, "command", <<>>, cmd, <<>>, TRUE) EXCEPT !.s = NormalD(@)], <<>>)
    ELSE IF cmd = <<"n","o","r","m","a","l","!"," ","x">>
    THEN Ok([Logged(m, "command", <<>>, cmd, <<>>, TRUE) EXCEPT !.s = NormalX(@)], <<>>)
    ELSE IF StartsWith(cmd, <<"/">>)
    THEN ExSearch(m, cmd)
    ELSE IF StartsWith(cmd, <<"%","s","/">>)
    THEN ExSubstitute(m, cmd)
    ELSE Raise(Logged(m, "command", <<>>, cmd, <<>>, FALSE), <<"E","4","9","2",":"," ","N","o","t"," ","a","n"," ","e","d","i","t","o","r"," ","c","o","m","m","a","n","d">>)

\* ------------------------------------------------------ the command handlers
\* Python's None for an absent AT LINE clause
None == <<>>

\* except Exception as e: return f"{prefix}{e}"
Catch(o, prefix) ==
    IF o.raised THEN Ok(o.m, prefix \o o.msg) ELSE o

\* A handler called with the numbers nums and the texts texts is left: by a
\* return of ret, or (raised) by an exception.
\* faulted: a session call made by this handler raised.
Returned(m0, name, nums, texts, o) ==
    [o EXCEPT !.m.handlers = Append(@,
        [name |-> name, nums |-> nums, texts |-> texts,
         raised |-> o.raised, ret |-> o.ret,
         faulted |-> \E i \in (Len(m0.calls) + 1)..Len(o.m.calls) : ~o.m.calls[i].ok])]

\* Each handler is a chain of session calls; a step takes the outcome of the
\* call before it and, unless that raised, makes the next one.
visual_lines_done(c3, start_line, end_line) ==
    IF c3.raised THEN c3
    ELSE Ok(c3.m, <<"S","e","l","e","c","t","e","d"," ","l","i","n","e","s"," ">> \o IntStr(start_line) \o <<" ","t","o"," ">> \o IntStr(end_line))

visual_lines_extend(c2, start_line, end_line) ==
    IF c2.raised THEN c2
    ELSE visual_lines_done(win_set_cursor(c2.m, end_line, 0), start_line, end_line)

visual_lines_enter(c1, start_line, end_line) ==
    IF c1.raised THEN c1
    ELSE visual_lines_extend(command(c1.m, <<"n","o","r","m","a","l","!"," ","V">>), start_line, end_line)

\* the bounds put in order before they are used
visual_lines_body_ordered(m, start_line, end_line) ==
    IF start_line > end_line
    THEN visual_lines_enter(win_set_cursor(m, end_line, 0), start_line, end_line)
    ELSE visual_lines_enter(win_set_cursor(m, start_line, 0), start_line, end_line)

visual_lines_body(m, start_line, end_line) ==
    visual_lines_enter(win_set_cursor(m, start_line, 0), start_line, end_line)

visual_lines_unguarded(m, start_line, end_line) ==
    Returned(m, "visual_lines", <<start_line, end_line>>, <<>>, visual_lines_body(m, start_line, end_line))

visual_lines_command(m, start_line, end_line) ==
    Returned(m, "visual_lines", <<start_line, end_line>>, <<>>,
        Catch(visual_lines_body(m, start_line, end_line),
              <<"E","r","r","o","r"," ","s","e","l","e","c","t","i","n","g"," ","l","i","n","e","s"," ">> \o IntStr(start_line) \o <<"-">>
                  \o IntStr(end_line) \o <<":"," ">>))

\* the branch taken when line_num is not None
insert_at_line_done(c3, text_lines, line_num) ==
    IF c3.raised THEN c3
    ELSE Ok(c3.m, IF Len(text_lines) = 1
                  THEN <<"I","n","s","e","r","t","e","d"," ","t","e","x","t"," ","a","t"," ","l","i","n","e"," ">> \o IntStr(line_num)
                  ELSE <<"I","n","s","e","r","t","e","d"," ">> \o IntStr(Len(text_lines)) \o <<" ","l","i","n","e","s"," ","s","t","a","r","t","i","n","g"," ","a","t"," ","l","i","n","e"," ">>
                           \o IntStr(line_num))

\* line_idx = line_num, the conversion to a 0-based index forgotten
insert_at_line_unconverted(c2, text_lines, line_num) ==
    IF c2.raised THEN c2
    ELSE insert_at_line_done(
             buffer_set_all(c2.m, InsertLoop(c2.ret, line_num, text_lines, 0)),
             text_lines, line_num)

insert_at_line(c2, text_lines, line_num) ==
    IF c2.raised THEN c2
    ELSE insert_at_line_done(
             buffer_set_all(c2.m, InsertLoop(c2.ret, line_num - 1, text_lines, 0)),
             text_lines, line_num)

\* the branch taken when line_num is None
insert_at_cursor_done(c3, text_lines) ==
    IF c3.raised THEN c3
    ELSE Ok(c3.m, IF Len(text_lines) = 1
                  THEN <<"I","n","s","e","r","t","e","d"," ","t","e","x","t"," ","a","t"," ","c","u","r","r","e","n","t"," ","p","o","s","i","t","i","o","n">>
                  ELSE <<"I","n","s","e","r","t","e","d"," ">> \o IntStr(Len(text_lines)) \o <<" ","l","i","n","e","s"," ","a","t"," ","c","u","r","r","e","n","t"," ","p","o","s","i","t","i","o","n">>)

insert_at_cursor_lines(c2, current_line, text_lines) ==
    IF c2.raised THEN c2
    ELSE insert_at_cursor_done(
             buffer_set_all(c2.m, InsertLoop(c2.ret, current_line + 1, text_lines, 0)),
             text_lines)

\* the new lines put before the cursor line instead of after it
insert_at_cursor_before(c1, text_lines) ==
    IF c1.raised THEN c1
    ELSE insert_at_cursor_lines(buffer_get_all(c1.m), c1.ret[1] - 2, text_lines)

insert_at_cursor(c1, text_lines) ==
    IF c1.raised THEN c1
    ELSE insert_at_cursor_lines(buffer_get_all(c1.m), c1.ret[1] - 1, text_lines)

insert_text_split(c0, text_lines, line_num) ==
    IF c0.raised THEN c0
    ELSE IF line_num # None
    THEN insert_at_line(buffer_get_all(c0.m), text_lines, line_num[1])
    ELSE insert_at_cursor(win_get_cursor(c0.m), text_lines)

insert_text_body(m, text, line_num) ==
    insert_text_split(current_buffer(m), SplitOn(text, NL), line_num)

insert_text_command(m, text, line_num) ==
    Returned(m, "insert_text", line_num, <<text>>,
        Catch(insert_text_body(m, text, line_num), <<"E","r","r","o","r"," ","i","n","s","e","r","t","i","n","g"," ","t","e","x","t",":"," ">>))

\* "v" in mode.lower()
Lower(c) == IF c = "V" THEN "v" ELSE c
IsVisualMode(mode) == \E i \in 1..Len(mode) : Lower(mode[i]) = "v"

delete_done(c2, msg) == IF c2.raised THEN c2 ELSE Ok(c2.m, msg)

delete_branch(c1) ==
    IF c1.raised THEN c1
    ELSE IF IsVisualMode(c1.ret)
    THEN delete_done(command(c1.m, <<"n","o","r","m","a","l","!"," ","d">>), <<"D","e","l","e","t","e","d"," ","v","i","s","u","a","l"," ","s","e","l","e","c","t","i","o","n">>)
    ELSE delete_done(command(c1.m, <<"n","o","r","m","a","l","!"," ","x">>), <<"D","e","l","e","t","e","d"," ","c","h","a","r","a","c","t","e","r"," ","u","n","d","e","r"," ","c","u","r","s","o","r">>)

\* the mode taken to be what it was when the executor was built
delete_body_remembered(m) == delete_branch(Ok(get_mode(m).m, ModeNormal))

delete_body(m) == delete_branch(get_mode(m))

delete_command(m) ==
    Returned(m, "delete", <<>>, <<>>, Catch(delete_body(m), <<"E","r","r","o","r"," ","d","e","l","e","t","i","n","g",":"," ">>))

delete_lines_done(c1, start_line, end_line) ==
    IF c1.raised THEN c1
    ELSE Ok(c1.m, <<"D","e","l","e","t","e","d"," ","l","i","n","e","s"," ">> \o IntStr(start_line) \o <<" ","t","o"," ">> \o IntStr(end_line))

\* start_idx = start_line, the conversion to a 0-based index forgotten
delete_lines_body_unconverted(m, start_line, end_line) ==
    delete_lines_done(buf_set_lines(m, start_line, end_line, <<>>),
                      start_line, end_line)

\* start_idx = start_line - 1; end_idx = end_line
delete_lines_body(m, start_line, end_line) ==
    delete_lines_done(buf_set_lines(m, start_line - 1, end_line, <<>>),
                      start_line, end_line)

delete_lines_command(m, start_line, end_line) ==
    Returned(m, "delete_lines", <<start_line, end_line>>, <<>>,
        Catch(delete_lines_body(m, start_line, end_line),
              <<"E","r","r","o","r"," ","d","e","l","e","t","i","n","g"," ","l","i","n","e","s"," ">> \o IntStr(start_line) \o <<"-">>
                  \o IntStr(end_line) \o <<":"," ">>))

goto_line_done(c1, line_num) ==
    IF c1.raised THEN c1 ELSE Ok(c1.m, <<"M","o","v","e","d"," ","t","o"," ","l","i","n","e"," ">> \o IntStr(line_num))

\* the cursor moved relative to where it is instead of to the line named
goto_line_body_relative(m, line_num) ==
    goto_line_done(win_set_cursor(m, m.s.line + line_num - 1, 0), line_num)

goto_line_body(m, line_num) == goto_line_done(win_set_cursor(m, line_num, 0), line_num)

goto_line_command(m, line_num) ==
    Returned(m, "goto_line", <<line_num>>, <<>>,
        Catch(goto_line_body(m, line_num),
              <<"E","r","r","o","r"," ","g","o","i","n","g"," ","t","o"," ","l","i","n","e"," ">> \o IntStr(line_num) \o <<":"," ">>))

find_text_done(c2, pattern, search_result) ==
    IF c2.raised THEN c2
    ELSE Ok(c2.m, <<"F","o","u","n","d"," ","'">> \o pattern \o <<"'"," ","a","t"," ","l","i","n","e"," ">> \o IntStr(search_result))

\* the navigable search issued whatever the probing search reported
find_text_found_always(c1, pattern) ==
    IF c1.raised THEN c1
    ELSE find_text_done(command(c1.m, <<"/">> \o pattern), pattern, c1.ret)

find_text_found(c1, pattern) ==
    IF c1.raised THEN c1
    ELSE IF c1.ret > 0
    THEN find_text_done(command(c1.m, <<"/">> \o pattern), pattern, c1.ret)
    ELSE Ok(c1.m, <<"P","a","t","t","e","r","n"," ","'">> \o pattern \o <<"'"," ","n","o","t"," ","f","o","u","n","d">>)

find_text_body(m, pattern) == find_text_found(call_search(m, pattern, <<"n","W">>), pattern)

find_text_command(m, pattern) ==
    Returned(m, "find_text", <<>>, <<pattern>>,
        Catch(find_text_body(m, pattern),
              <<"E","r","r","o","r"," ","s","e","a","r","c","h","i","n","g"," ","f","o","r"," ","'">> \o pattern \o <<"'",":"," ">>))

replace_text_done(c1, old_pattern, new_text) ==
    IF c1.raised THEN c1
    ELSE Ok(c1.m, <<"R","e","p","l","a","c","e","d"," ","a","l","l"," ","'">> \o old_pattern \o <<"'"," ","w","i","t","h"," ","'">> \o new_text \o <<"'">>)

replace_text_body(m, old_pattern, new_text) ==
    replace_text_done(command(m, <<"%","s","/">> \o old_pattern \o <<"/">> \o new_text \o <<"/","g">>),
                      old_pattern, new_text)

replace_text_command(m, old_pattern, new_text) ==
    Returned(m, "replace_text", <<>>, <<old_pattern, new_text>>,
        Catch(replace_text_body(m, old_pattern, new_text),
              <<"E","r","r","o","r"," ","r","e","p","l","a","c","i","n","g"," ","'">> \o old_pattern \o <<"'"," ","w","i","t","h"," ","'">> \o new_text \o <<"'",":"," ">>))

\* ------------------------------------------------------------ the grammar
\* An input is the sequence of its lexemes, each a token [k, s]: its kind and
\* its text.  A keyword's text is the keyword, a NUMBER's text its digits, a
\* STRING's or MULTILINE_STRING's text the literal with its quotes; JUNK is
\* text no terminal matches.
KwText ==
    [k \in {"VISUAL", "LINES", "TO", "INSERT", "AT", "LINE", "DELETE", "GOTO",
            "FIND", "REPLACE", "WITH"} |->
        CASE k = "VISUAL" -> <<"V","I","S","U","A","L">> [] k = "LINES" -> <<"L","I","N","E","S">> [] k = "TO" -> <<"T","O">>
          [] k = "INSERT" -> <<"I","N","S","E","R","T">> [] k = "AT" -> <<"A","T">> [] k = "LINE" -> <<"L","I","N","E">>
          [] k = "DELETE" -> <<"D","E","L","E","T","E">> [] k = "GOTO" -> <<"G","O","T","O">> [] k = "FIND" -> <<"F","I","N","D">>
          [] k = "REPLACE" -> <<"R","E","P","L","A","C","E">> [] k = "WITH" -> <<"W","I","T","H">>]

Kw(k) == [k |-> k, s |-> KwText[k]]
Num(n) == [k |-> "NUMBER", s |-> IntStr(n)]
Str1(t) == [k |-> "STRING", s |-> <<"\"">> \o t \o <<"\"">>]
Str3(t) == [k |-> "MULTILINE_STRING", s |-> <<"\"","\"","\"">> \o t \o <<"\"","\"","\"">>]
Junk == [k |-> "JUNK", s |-> <<"?">>]

\* the text of an input: its lexemes, one space between them
RECURSIVE SourceText(_)
SourceText(toks) ==
    IF Len(toks) = 0 THEN <<>>
    ELSE IF Len(toks) = 1 THEN toks[1].s
    ELSE toks[1].s \o <<" ">> \o SourceText(Tail(toks))

IsTok(toks, i, k) == i <= Len(toks) /\ toks[i].k = k

NoParse == [ok |-> FALSE, cmd |-> [rule |-> "", items |-> <<>>], next |-> 0]
Parsed(rule, items, next) == [ok |-> TRUE, cmd |-> [rule |-> rule, items |-> items], next |-> next]

\* One command at position i (lookahead of one token: AT after an INSERT
\* literal and LINES after DELETE are shifted, never left for a next command).
ParseCommand(toks, i) ==
    IF IsTok(toks, i, "VISUAL")
    THEN IF /\ IsTok(toks, i + 1, "LINES") /\ IsTok(toks, i + 2, "NUMBER")
            /\ IsTok(toks, i + 3, "TO") /\ IsTok(toks, i + 4, "NUMBER")
         THEN Parsed("visual_lines", <<toks[i + 2].s, toks[i + 4].s>>, i + 5)
         ELSE NoParse
    ELSE IF IsTok(toks, i, "INSERT")
    THEN IF ~(IsTok(toks, i + 1, "STRING") \/ IsTok(toks, i + 1, "MULTILINE_STRING"))
         THEN NoParse
         ELSE IF IsTok(toks, i + 2, "AT")
         THEN IF IsTok(toks, i + 3, "LINE") /\ IsTok(toks, i + 4, "NUMBER")
              THEN Parsed("insert_text", <<toks[i + 1].s, toks[i + 4].s>>, i + 5)
              ELSE NoParse
         ELSE Parsed("insert_text", <<toks[i + 1].s>>, i + 2)
    ELSE IF IsTok(toks, i, "DELETE")
    THEN IF IsTok(toks, i + 1, "LINES")
         THEN IF /\ IsTok(toks, i + 2, "NUMBER") /\ IsTok(toks, i + 3, "TO")
                 /\ IsTok(toks, i + 4, "NUMBER")
              THEN Parsed("lines_range", <<toks[i + 2].s, toks[i + 4].s>>, i + 5)
              ELSE NoParse
         ELSE Parsed("delete_command", <<>>, i + 1)
    ELSE IF IsTok(toks, i, "GOTO")
    THEN IF IsTok(toks, i + 1, "LINE") /\ IsTok(toks, i + 2, "NUMBER")
         THEN Parsed("goto_line", <<toks[i + 2].s>>, i + 3)
         ELSE NoParse
    ELSE IF IsTok(toks, i, "FIND")
    THEN IF IsTok(toks, i + 1, "STRING")
         THEN Parsed("find_text", <<toks[i + 1].s>>, i + 2)
         ELSE NoParse
    ELSE IF IsTok(toks, i, "REPLACE")
    THEN IF /\ IsTok(toks, i + 1, "STRING") /\ IsTok(toks, i + 2, "WITH")
            /\ IsTok(toks, i + 3, "STRING")
         THEN Parsed("replace_text", <<toks[i + 1].s, toks[i + 3].s>>, i + 4)
         ELSE NoParse
    ELSE NoParse

ParseErrorMsg == <<"U","n","e","x","p","e","c","t","e","d"," ","i","n","p","u","t">>

\* start: one command after another to the end of the input, at least one
RECURSIVE ParseFrom(_, _, _)
ParseNext(toks, c, acc) ==
    IF c.ok THEN ParseFrom(toks, c.next, Append(acc, c.cmd))
    ELSE Raise(<<>>, ParseErrorMsg)

ParseFrom(toks, i, acc) ==
    IF i > Len(toks)
    THEN IF Len(acc) = 0 THEN Raise(<<>>, ParseErrorMsg) ELSE Ok(<<>>, acc)
    ELSE ParseNext(toks, ParseCommand(toks, i), acc)

\* self.parser.parse(dsl_command): the commands of the tree, or a raise
Parse(toks) == ParseFrom(toks, 1, <<>>)

\* The rules of the grammar the package ships.
GrammarRules ==
    {"visual_lines", "insert_text", "delete_command", "lines_range", "goto_line",
     "find_text", "replace_text"}

\* parse of a parser compiled from a grammar with the command rules parser:
\* an input using a command the grammar does not have is a parse error
parser_uses(parser, parse_tree) ==
    IF parse_tree.raised THEN parse_tree
    ELSE IF \A i \in 1..Len(parse_tree.ret) : parse_tree.ret[i].rule \in parser
    THEN parse_tree
    ELSE Raise(<<>>, ParseErrorMsg)

parser_parse(parser, toks) == parser_uses(parser, Parse(toks))

\* ---------------------------------------------------------- the transformer
\* every literal unquoted by generic quote stripping, whatever its form
UnquoteInsertByStripping(text) == Strip(text, {"\"", "'"})

\* NvimDSLTransformer.insert_text: the literal without its quotes
UnquoteInsert(text) ==
    IF StartsWith(text, <<"\"","\"","\"">>) /\ EndsWith(text, <<"\"","\"","\"">>)
    THEN Slice3(text)
    ELSE Strip(text, {"\"", "'"})

\* items[0].strip('"')
UnquoteDouble(text) == Strip(text, {"\""})

\* the callback of one command node
transform_command(m, cmd) ==
    CASE cmd.rule = "visual_lines" ->
            visual_lines_command(m, IntOf(cmd.items[1]), IntOf(cmd.items[2]))
      [] cmd.rule = "insert_text" ->
            insert_text_command(m, UnquoteInsert(cmd.items[1]),
                IF Len(cmd.items) > 1 THEN <<IntOf(cmd.items[2])>> ELSE None)
      [] cmd.rule = "delete_command" -> delete_command(m)
      [] cmd.rule = "lines_range" ->
            delete_lines_command(m, IntOf(cmd.items[1]), IntOf(cmd.items[2]))
      [] cmd.rule = "goto_line" -> goto_line_command(m, IntOf(cmd.items[1]))
      [] cmd.rule = "find_text" -> find_text_command(m, UnquoteDouble(cmd.items[1]))
      [] cmd.rule = "replace_text" ->
            replace_text_command(m, UnquoteDouble(cmd.items[1]), UnquoteDouble(cmd.items[2]))

\* transform(tree): the callbacks run bottom-up and left to right, so one
\* command after the other in source order; start collects their results
RECURSIVE transform_from(_, _, _, _)
\* the walk left at the first error Result
transform_next_stops(o, cmds, i, results) ==
    IF o.raised THEN o
    ELSE IF Contains(o.ret, <<"E","r","r","o","r">>) THEN Ok(o.m, Append(results, o.ret))
    ELSE transform_from(o.m, cmds, i + 1, Append(results, o.ret))

transform_next(o, cmds, i, results) ==
    IF o.raised THEN o
    ELSE transform_from(o.m, cmds, i + 1, Append(results, o.ret))

transform_from(m, cmds, i, results) ==
    IF i > Len(cmds) THEN Ok(m, results)
    ELSE transform_next(transform_command(m, cmds[i]), cmds, i, results)

transform(m, cmds) == transform_from(m, cmds, 1, <<>>)

\* str(tree) of a parse tree: Tree('start', [Tree('command', [...]), ...])
RuleText ==
    [r \in {"visual_lines", "insert_text", "delete_command", "lines_range",
            "goto_line", "find_text", "replace_text"} |->
        CASE r = "visual_lines" -> <<"v","i","s","u","a","l","_","l","i","n","e","s">> [] r = "insert_text" -> <<"i","n","s","e","r","t","_","t","e","x","t">>
          [] r = "delete_command" -> <<"d","e","l","e","t","e","_","c","o","m","m","a","n","d">> [] r = "lines_range" -> <<"l","i","n","e","s","_","r","a","n","g","e">>
          [] r = "goto_line" -> <<"g","o","t","o","_","l","i","n","e">> [] r = "find_text" -> <<"f","i","n","d","_","t","e","x","t">>
          [] r = "replace_text" -> <<"r","e","p","l","a","c","e","_","t","e","x","t">>]

\* the elements of a list of texts, a comma and a space between them
RECURSIVE JoinComma(_)
JoinComma(texts) ==
    IF Len(texts) = 0 THEN <<>>
    ELSE IF Len(texts) = 1 THEN texts[1]
    ELSE texts[1] \o <<","," ">> \o JoinComma(Tail(texts))

CommandRepr(cmd) ==
    <<"T","r","e","e","(","'","c","o","m","m","a","n","d","'",","," ","[","T","r","e","e","(","'">> \o RuleText[cmd.rule] \o <<"'",","," ","[">>
        \o JoinComma(cmd.items) \o <<"]",")","]",")">>

TreeRepr(parse_tree) ==
    <<"T","r","e","e","(","'","s","t","a","r","t","'",","," ","[">>
        \o JoinComma([i \in 1..Len(parse_tree) |-> CommandRepr(parse_tree[i])]) \o <<"]",")">>

\* ------------------------------------------------------------ the executor
\* str([]) of an empty result list
EmptyListRepr == <<"[","]">>

\* the Result of the last command returned instead of that of the first
execute_result_last(result) ==
    IF result.raised THEN result
    ELSE IF Len(result.ret) > 0 THEN Ok(result.m, result.ret[Len(result.ret)])
    ELSE Ok(result.m, EmptyListRepr)

\* if isinstance(result, list) and len(result) > 0: return result[0]
\* else: return str(result)
execute_result(result) ==
    IF result.raised THEN result
    ELSE IF Len(result.ret) > 0 THEN Ok(result.m, result.ret[1])
    ELSE Ok(result.m, EmptyListRepr)

\* the cursor sent to the first line before a parse error is reported
execute_parsed_rewinding(m, parse_tree) ==
    IF parse_tree.raised THEN Raise(win_set_cursor(m, 1, 0).m, parse_tree.msg)
    ELSE execute_result(transform(m, parse_tree.ret))

\* parse_tree = self.parser.parse(dsl_command), then the transform
execute_parsed(m, parse_tree) ==
    IF parse_tree.raised THEN Raise(m, parse_tree.msg)
    ELSE execute_result(transform(m, parse_tree.ret))

execute_body(m, dsl_command) == execute_parsed(m, parser_parse(m.parser, dsl_command))

execute_unguarded(m, dsl_command) == execute_body(m, dsl_command)

\* NvimDSLExecutor.execute
execute(m, dsl_command) ==
    Catch(execute_body(m, dsl_command),
          <<"E","r","r","o","r"," ","e","x","e","c","u","t","i","n","g"," ","'">> \o SourceText(dsl_command) \o <<"'",":"," ">>)

\* NvimDSLExecutor.execute_batch: results.append(self.execute(cmd)) for each cmd
RECURSIVE batch_from(_, _, _, _)
\* the loop left at the first error Result
batch_next_stops(o, commands, i, results) ==
    IF o.raised THEN o
    ELSE IF Contains(o.ret, <<"E","r","r","o","r">>) THEN Ok(o.m, Append(results, o.ret))
    ELSE batch_from(o.m, commands, i + 1, Append(results, o.ret))

batch_next(o, commands, i, results) ==
    IF o.raised THEN o
    ELSE batch_from(o.m, commands, i + 1, Append(results, o.ret))

batch_from(m, commands, i, results) ==
    IF i > Len(commands) THEN Ok(m, results)
    ELSE batch_next(execute(m, commands[i]), commands, i, results)

execute_batch(m, commands) == batch_from(m, commands, 1, <<>>)

\* NvimDSLExecutor.validate_command
\* self.parser.parse(dsl_command); return True
validate_body(m, parse_tree) ==
    IF parse_tree.raised THEN Raise(m, parse_tree.msg) ELSE Ok(m, TRUE)

\* validate_command without its except clause
validate_command_unguarded(m, dsl_command) ==
    validate_body(m, parser_parse(m.parser, dsl_command))

\* except Exception: return False
validate_caught(o) == IF o.raised THEN Ok(o.m, FALSE) ELSE o

validate_command(m, dsl_command) ==
    validate_caught(validate_body(m, parser_parse(m.parser, dsl_command)))

\* NvimDSLExecutor.get_parse_tree: return self.parser.parse(dsl_command)
get_parse_tree_parsed(m, parse_tree) ==
    IF parse_tree.raised THEN Raise(m, parse_tree.msg) ELSE Ok(m, parse_tree.ret)

get_parse_tree(m, dsl_command) ==
    get_parse_tree_parsed(m, parser_parse(m.parser, dsl_command))

\* ------------------------------------------------- the grammar source files
\* Path(__file__).parent.parent / "grammars" / "stvim.lark", and a path a
\* caller gives
DefaultPath == "grammars/stvim.lark"
CustomPath == "custom.lark"
GrammarPaths == {DefaultPath, CustomPath}

\* What is at a path: a grammar with some command rules, a text that is no
\* grammar, or nothing.
GrammarSource(rules) == [kind |-> "grammar", rules |-> rules]
NotAGrammar == [kind |-> "text", rules |-> {}]
NoFile == [kind |-> "absent", rules |-> {}]

GrammarWithoutFind == GrammarRules \ {"find_text"}

GrammarSources ==
    {GrammarSource(GrammarRules), GrammarSource(GrammarWithoutFind), NotAGrammar, NoFile}

\* ------------------------------------------------------------ the executor
NoExecutor == [built |-> FALSE, grammar_file |-> "", parser |-> {}]

\* NvimDSLExecutor._resolve_grammar_file: an explicit path is taken as it
\* is, the default path must exist
resolve_grammar_file(self, fs, grammar_file) ==
    IF grammar_file # None THEN Ok(self, grammar_file[1])
    ELSE IF fs[DefaultPath].kind = "absent"
    THEN RaiseOf(self, "FileNotFoundError", <<"G","r","a","m","m","a","r"," ","f","i","l","e"," ","n","o","t"," ","f","o","u","n","d">>)
    ELSE Ok(self, DefaultPath)

\* NvimDSLExecutor._load_parser: open, read, Lark(grammar_content)
load_parser(self, fs) ==
    IF fs[self.grammar_file].kind = "absent"
    THEN RaiseOf(self, "FileNotFoundError", <<"G","r","a","m","m","a","r"," ","f","i","l","e"," ","n","o","t"," ","f","o","u","n","d">>)
    ELSE IF fs[self.grammar_file].kind # "grammar"
    THEN RaiseOf(self, "RuntimeError", <<"E","r","r","o","r"," ","l","o","a","d","i","n","g"," ","g","r","a","m","m","a","r">>)
    ELSE Ok(self, fs[self.grammar_file].rules)

\* NvimDSLExecutor.__init__: self.parser = self._load_parser()
init_loaded(o) ==
    IF o.raised THEN o
    ELSE Ok(o.m, [o.m EXCEPT !.parser = o.ret, !.built = TRUE])

\* NvimDSLExecutor.__init__: self.grammar_file = self._resolve_grammar_file(..)
init_resolved(o, fs) ==
    IF o.raised THEN o
    ELSE init_loaded(load_parser([o.m EXCEPT !.grammar_file = o.ret], fs))

\* NvimDSLExecutor(nvim, grammar_file): the executor, or a raise
construct(fs, grammar_file) ==
    init_resolved(resolve_grammar_file(NoExecutor, fs, grammar_file), fs)

\* a reload that compiles the source and keeps the parser it had
reload_loaded_keeps(o) ==
    IF o.raised THEN o ELSE Ok(o.m, None)

\* reload_grammar: the assignment self.parser = ..., made when
\* _load_parser returned
reload_loaded(o) ==
    IF o.raised THEN o ELSE Ok([o.m EXCEPT !.parser = o.ret], None)

\* NvimDSLExecutor.reload_grammar
reload_grammar(self, fs) == reload_loaded(load_parser(self, fs))

\* -------------------------------------------------------------- the prompt
\* len(self.history) > 100
HistoryMax == 100

\* The characters str.strip() removes (of those a terminal line can hold).
Whitespace == {" ", "\t", "\n", "\r", "\f"}

\* result.strip()
StripWhite(text) == Strip(text, Whitespace)

TripleQuote == <<"\"","\"","\"">>

\* text.count('"""') from position i on: occurrences that do not overlap,
\* found from left to right
RECURSIVE CountTripleFrom(_, _)
CountTripleFrom(text, i) ==
    IF i + 2 > Len(text) THEN 0
    ELSE IF SubSeq(text, i, i + 2) = TripleQuote THEN 1 + CountTripleFrom(text, i + 3)
    ELSE CountTripleFrom(text, i + 1)

CountTriple(text) == CountTripleFrom(text, 1)

\* "\n".join(lines)
RECURSIVE JoinLines(_)
JoinLines(lines) ==
    IF Len(lines) = 0 THEN <<>>
    ELSE IF Len(lines) = 1 THEN lines[1]
    ELSE lines[1] \o <<NL>> \o JoinLines(Tail(lines))

\* `x in self.history`
InHistory(hist, x) == \E i \in 1..Len(hist) : hist[i] = x

\* the newest entry dropped when the list is too long
history_pop_newest(hist) ==
    IF Len(hist) > HistoryMax THEN SubSeq(hist, 1, Len(hist) - 1) ELSE hist

\* if len(self.history) > 100: self.history.pop(0)
history_pop(hist) ==
    IF Len(hist) > HistoryMax THEN Tail(hist) ELSE hist

\* if result.strip() and result.strip() not in self.history: append
history_add(hist, result) ==
    IF StripWhite(result) # <<>> /\ ~InHistory(hist, StripWhite(result))
    THEN history_pop(Append(hist, StripWhite(result)))
    ELSE hist

\* What a call of get_input has read: one record per read of the terminal,
\* ok when it gave a line, otherwise exc is what it raised.
NotReading == [pc |-> "idle", reads |-> <<>>]
LineRead(text) == [ok |-> TRUE, text |-> text, exc |-> ""]
ReadRaised(exc) == [ok |-> FALSE, text |-> <<>>, exc |-> exc]

\* lines: the lines read so far
RECURSIVE LinesOf(_)
LinesOf(reads) ==
    IF Len(reads) = 0 THEN <<>>
    ELSE IF reads[1].ok THEN <<reads[1].text>> \o LinesOf(Tail(reads))
    ELSE LinesOf(Tail(reads))

\* if '"""' in result: if result.count('"""') % 2 == 1: the literal is open
StartsMultiline(result) == Contains(result, TripleQuote) /\ CountTriple(result) % 2 = 1

\* any continuation line with a delimiter taken to close the literal
Completes_any(lines) == Contains(lines[Len(lines)], TripleQuote)

\* if '"""' in continuation: if "\n".join(lines).count('"""') % 2 == 0
Completes(lines) ==
    /\ Contains(lines[Len(lines)], TripleQuote)
    /\ CountTriple(JoinLines(lines)) % 2 = 0
\* ------------------------------------------------------------ the inputs
LineA == <<"a">>
LineB == <<"b">>
TextX == <<"x">>
TextXY == <<"x","\n","y">>
TextError == <<"E","r","r","o","r">>

Numbers == 0..MaxLine

CmdVisual(a, b) == <<Kw("VISUAL"), Kw("LINES"), Num(a), Kw("TO"), Num(b)>>
CmdInsert(lit) == <<Kw("INSERT"), lit>>
CmdInsertAt(lit, n) == <<Kw("INSERT"), lit, Kw("AT"), Kw("LINE"), Num(n)>>
CmdDelete == <<Kw("DELETE")>>
CmdDeleteLines(a, b) == <<Kw("DELETE"), Kw("LINES"), Num(a), Kw("TO"), Num(b)>>
CmdGoto(n) == <<Kw("GOTO"), Kw("LINE"), Num(n)>>
CmdFind(p) == <<Kw("FIND"), Str1(p)>>
CmdReplace(old, new) == <<Kw("REPLACE"), Str1(old), Kw("WITH"), Str1(new)>>

InsertLiterals == {Str1(TextX), Str3(TextXY)}

\* Inputs of every command kind, and inputs that do not parse.
ValidInputs ==
    {CmdVisual(1, 2), CmdVisual(2, 1), CmdVisual(1, MaxLine)}
    \cup {CmdInsert(Str1(TextX)), CmdInsertAt(Str1(TextX), 1)}
    \cup {CmdDelete, CmdDeleteLines(1, 1), CmdDeleteLines(2, 1), CmdDeleteLines(3, 1)}
    \cup {CmdGoto(n) : n \in Numbers}
    \cup {CmdFind(p) : p \in {LineA, TextError}}
    \cup {CmdReplace(LineA, LineB)}

\* Two commands in one input, as the pair of them.
MultiPairs ==
    {<<CmdGoto(MaxLine), CmdInsert(Str1(TextX))>>,
     <<CmdInsert(Str1(TextX)), CmdGoto(2)>>,
     <<CmdGoto(2), CmdInsert(Str1(TextX))>>,
     <<CmdInsert(Str1(TextX)), CmdGoto(MaxLine)>>}

MultiInputs == {p[1] \o p[2] : p \in MultiPairs}

InvalidInputs ==
    {<<Junk>>, <<Kw("GOTO"), Num(1)>>, <<Kw("INSERT"), Str1(TextX), Kw("AT"), Kw("LINE")>>,
     CmdGoto(1) \o <<Junk>>}

Inputs == ValidInputs \cup MultiInputs \cup InvalidInputs

\* Inputs that edit the buffer by line number, with every number up to MaxLine.
EditInputs ==
    {CmdInsert(lit) : lit \in InsertLiterals}
    \cup {CmdInsertAt(lit, n) : lit \in InsertLiterals, n \in Numbers}
    \cup {CmdDeleteLines(a, b) : a \in Numbers, b \in Numbers}
    \cup {CmdGoto(n) : n \in Numbers}

\* An insertion at a line and then a deletion of lines from that line on.
RoundTrips ==
    {<<CmdInsertAt(lit, n), CmdDeleteLines(n, e)>> :
        lit \in InsertLiterals, n \in Numbers, e \in Numbers}

\* the lists handed to execute_batch
BatchInputs == {CmdGoto(MaxLine), CmdInsert(Str1(TextX)), <<Junk>>}

\* the same GOTO twice
GotoTwice == {<<CmdGoto(n), CmdGoto(n)>> : n \in Numbers}

RECURSIVE SeqsUpTo(_, _)
SeqsUpTo(S, n) ==
    IF n = 0 THEN {<<>>}
    ELSE LET shorter == SeqsUpTo(S, n - 1)
         IN shorter \cup {Append(q, x) : q \in {r \in shorter : Len(r) = n - 1}, x \in S}

Batches == SeqsUpTo(BatchInputs, MaxBatch) \cup GotoTwice

\* ------------------------------------------------------------- the machine
\* session: the editor; last: the operation just made and what it returned;
\* files: the grammar sources on disk; executor: the NvimDSLExecutor;
\* history: the prompt's list of entered commands; reading: how far a call
\* of the prompt's get_input has come
VARIABLES session, last, files, executor, history, reading

vars == <<session, last, files, executor, history, reading>>

host == <<files, executor, history, reading>>

InitBuffers == {<<LineA>>, <<LineA, LineB>>}

NoOp ==
    [op |-> "none", inputs |-> <<>>, pre |-> <<>>, fault |-> 0, raised |-> FALSE,
     exc |-> "", results |-> <<>>, calls |-> <<>>, handlers |-> <<>>]

\* The package as shipped: the grammar at its default path, an executor
\* built from it, a prompt nothing was entered at.
Installed ==
    /\ files = [p \in GrammarPaths |-> GrammarSource(GrammarRules)]
    /\ executor = construct(files, None).ret
    /\ history = <<>>
    /\ reading = NotReading

Init ==
    /\ session \in {[buf |-> b, line |-> 1, col |-> 0, mode |-> ModeNormal, anchor |-> 0] :
                        b \in InitBuffers}
    /\ last = NoOp
    /\ Installed

\* the executor at work on the session s, its f-th session call failing
Machine(s, f) ==
    [s |-> s, calls |-> <<>>, f |-> f, handlers |-> <<>>, parser |-> executor.parser]

\* What an operation left behind: the session, and in last the operation,
\* its inputs, the session it started from and what it returned.
Record(op, inputs, o, results) ==
    /\ Len(o.m.s.buf) <= MaxBuf
    /\ session' = o.m.s
    /\ last' = [op |-> op, inputs |-> inputs, pre |-> session, fault |-> o.m.f,
                raised |-> o.raised, exc |-> o.exc,
                results |-> IF o.raised THEN <<>> ELSE results,
                calls |-> o.m.calls, handlers |-> o.m.handlers]
    /\ UNCHANGED host

Single(o) == [o EXCEPT !.ret = IF o.raised THEN <<>> ELSE <<@>>]

\* executor.execute(input), the f-th session call failing by itself
ExecuteReturns(input, o) == Record("execute", <<input>>, o, o.ret)

Execute(input, f) == ExecuteReturns(input, Single(execute(Machine(session, f), input)))

\* executor.execute_batch(commands)
ExecuteBatchReturns(commands, o) == Record("execute_batch", commands, o, o.ret)

ExecuteBatch(commands, f) ==
    ExecuteBatchReturns(commands, execute_batch(Machine(session, f), commands))

\* executor.validate_command(input)
ValidateReturns(input, o) == Record("validate_command", <<input>>, o, o.ret)

Validate(input) ==
    ValidateReturns(input, Single(validate_command(Machine(session, 0), input)))

\* executor.get_parse_tree(input)
GetParseTreeReturns(input, o) == Record("get_parse_tree", <<input>>, o, o.ret)

GetParseTree(input) ==
    GetParseTreeReturns(input, Single(get_parse_tree(Machine(session, 0), input)))

\* The session calls an operation makes when none fails by itself: any one
\* of them may be the one that does.
FaultPoints(input) == 0..Len(execute(Machine(session, 0), input).m.calls)
BatchFaultPoints(commands) == 0..Len(execute_batch(Machine(session, 0), commands).m.calls)

\* The caller is done with what the operation returned and turns to the next.
Display ==
    /\ last.op # "none"
    /\ last' = NoOp
    /\ UNCHANGED <<session, host>>

Next ==
    \/ /\ last.op = "none"
       /\ \E input \in Inputs : \E f \in FaultPoints(input) : Execute(input, f)
    \/ /\ last.op = "none"
       /\ \E commands \in Batches : \E f \in BatchFaultPoints(commands) :
              ExecuteBatch(commands, f)
    \/ /\ last.op = "none"
       /\ \E input \in Inputs : Validate(input)
    \/ /\ last.op = "none"
       /\ \E input \in Inputs : GetParseTree(input)
    \/ Display

Spec == Init /\ [][Next]_vars

\* Line edits one after the other, no session call failing by itself.
NextEdit ==
    \/ /\ last.op = "none"
       /\ \E input \in EditInputs : Execute(input, 0)
    \/ /\ last.op = "none"
       /\ \E commands \in RoundTrips : ExecuteBatch(commands, 0)
    \/ Display

SpecEdit == Init /\ [][NextEdit]_vars

\* Searching and substituting in lines of more than one character, no
\* session call failing by itself.
LineBA == <<"b","a">>
TextZ == <<"z">>
TextAmp == <<"&">>
TextSlash == <<"/">>
TextQuotedX == <<"'","x","'">>
\* a payload that starts with a single quote, holds a double quote and a
\* newline, and ends with a single quote
TextPayload == <<"'","x","\"","\n","y","'">>

TextBuffers == {<<LineBA, LineA>>, <<LineA, LineB>>, <<LineA>>}

TextInputs ==
    {CmdGoto(1), CmdGoto(2)}
    \cup {CmdFind(p) : p \in {LineA, LineB, TextZ}}
    \cup {CmdReplace(LineA, new) : new \in {LineB, TextAmp, TextSlash}}
    \cup {CmdInsert(Str1(t)) : t \in {TextX, TextQuotedX}}
    \cup {CmdInsert(Str3(TextPayload)), CmdInsertAt(Str3(TextXY), 1)}

InitText ==
    /\ session \in {[buf |-> b, line |-> 1, col |-> 0, mode |-> ModeNormal, anchor |-> 0] :
                        b \in TextBuffers}
    /\ last = NoOp
    /\ Installed

NextText ==
    \/ /\ last.op = "none"
       /\ \E input \in TextInputs : Execute(input, 0)
    \/ Display

SpecText == InitText /\ [][NextText]_vars

\* Commands given while the editor is in whatever mode its user left it in,
\* no session call failing by itself.
ModeInputs ==
    {CmdDelete, CmdVisual(1, 2), CmdVisual(2, 1), CmdGoto(1), CmdGoto(2),
     CmdInsert(Str1(TextX))}

InitMode ==
    /\ session \in
           {[buf |-> b, line |-> c, col |-> 0, mode |-> ModeNormal, anchor |-> 0] :
               b \in InitBuffers, c \in {1}}
           \cup UNION {{[buf |-> b, line |-> c, col |-> 0, mode |-> v, anchor |-> a] :
                           c \in 1..Len(b), a \in 1..Len(b)} :
                       b \in InitBuffers, v \in VisualModes}
    /\ last = NoOp
    /\ Installed

NextMode ==
    \/ /\ last.op = "none"
       /\ \E input \in ModeInputs : Execute(input, 0)
    \/ Display

SpecMode == InitMode /\ [][NextMode]_vars

\* The last step of execute as a function of the parse tree and of the list
\* the transform returned for it, every tree with every list.
ParseTrees == {Parse(input).ret : input \in ValidInputs \cup MultiInputs}

ResultTexts == {<<"M","o","v","e","d"," ","t","o"," ","l","i","n","e"," ","1">>, <<"E","r","r","o","r"," ","g","o","i","n","g"," ","t","o"," ","l","i","n","e"," ","0",":"," ">> \o FaultMsg}

TransformResults == SeqsUpTo(ResultTexts, MaxBatch)

Transformed(parse_tree, result) ==
    [NoOp EXCEPT !.op = "transform", !.inputs = <<parse_tree, result>>]

InitFallback ==
    /\ session \in {[buf |-> b, line |-> 1, col |-> 0, mode |-> ModeNormal, anchor |-> 0] :
                        b \in InitBuffers}
    /\ last \in {Transformed(parse_tree, result) :
                    parse_tree \in ParseTrees, result \in TransformResults}
    /\ Installed

\* lines 95-98 of execute: the return value chosen from the transform's list
ExecuteReturnsResult ==
    /\ last.op = "transform"
    /\ last' = [last EXCEPT !.op = "execute_result", !.pre = session,
                    !.results = <<execute_result(Ok(Machine(session, 0), last.inputs[2])).ret>>]
    /\ UNCHANGED <<session, host>>

NextFallback == ExecuteReturnsResult

SpecFallback == InitFallback /\ [][NextFallback]_vars

\* ------------------------------------------- building and reloading executors
\* Commands tried on an executor whose grammar may have changed.
GrammarInputs == {CmdFind(LineA), CmdGoto(1), <<Junk>>}

GrammarFiles == {None} \cup {<<path>> : path \in GrammarPaths}

\* What a call on the executor object left behind: pre is the executor the
\* caller held before.
RecordExecutor(op, inputs, o) ==
    /\ last' = [op |-> op, inputs |-> inputs, pre |-> executor, fault |-> 0,
                raised |-> o.raised, exc |-> o.exc, results |-> <<>>,
                calls |-> <<>>, handlers |-> <<>>]
    /\ UNCHANGED <<session, files, history, reading>>

\* executor = NvimDSLExecutor(nvim, grammar_file): a raise leaves the caller
\* with what it had
ConstructReturns(grammar_file, o) ==
    /\ executor' = IF o.raised THEN executor ELSE o.ret
    /\ RecordExecutor("construct", <<grammar_file>>, o)

Construct(grammar_file) == ConstructReturns(grammar_file, construct(files, grammar_file))

\* executor.reload_grammar()
ReloadGrammarReturns(o) ==
    /\ executor' = o.m
    /\ RecordExecutor("reload_grammar", <<>>, o)

ReloadGrammar ==
    /\ executor.built
    /\ ReloadGrammarReturns(reload_grammar(executor, files))

\* Somebody edits, replaces, deletes or creates a grammar file.
WriteGrammar(path, source) ==
    /\ files[path] # source
    /\ files' = [files EXCEPT ![path] = source]
    /\ UNCHANGED <<session, last, executor, history, reading>>

InitGrammar ==
    /\ session \in {[buf |-> b, line |-> 1, col |-> 0, mode |-> ModeNormal, anchor |-> 0] :
                        b \in InitBuffers}
    /\ last = NoOp
    /\ files \in [GrammarPaths -> GrammarSources]
    /\ executor = NoExecutor
    /\ history = <<>>
    /\ reading = NotReading

NextGrammar ==
    \/ /\ last.op = "none"
       /\ \E grammar_file \in GrammarFiles : Construct(grammar_file)
    \/ /\ last.op = "none"
       /\ ReloadGrammar
    \/ /\ last.op = "none"
       /\ \E path \in GrammarPaths : \E source \in GrammarSources : WriteGrammar(path, source)
    \/ /\ last.op = "none"
       /\ executor.built
       /\ \E input \in GrammarInputs : Execute(input, 0)
    \/ /\ last.op = "none"
       /\ executor.built
       /\ \E input \in GrammarInputs : Validate(input)
    \/ Display

SpecGrammar == InitGrammar /\ [][NextGrammar]_vars

\* ------------------------------------ the editor used outside the executor
\* INSERT without a line and DELETE act where the cursor is and on the mode
\* the editor is in.
UserInputs == {CmdInsert(Str1(TextX)), CmdDelete}

\* Between two calls the editor's user moves the cursor, or starts or ends
\* a line-wise selection at the cursor line: the executor has no part in it.
UserActs(line, mode) ==
    /\ line <= Len(session.buf) \/ line = 1
    /\ session' = [session EXCEPT !.line = line, !.mode = mode,
                                  !.anchor = IF mode = ModeNormal THEN 0 ELSE line]
    /\ session' # session
    /\ UNCHANGED <<last, host>>

NextUser ==
    \/ /\ last.op = "none"
       /\ \E input \in UserInputs : Execute(input, 0)
    \/ /\ last.op = "none"
       /\ \E line \in 1..MaxBuf : \E mode \in {ModeNormal, ModeVisualLine} :
              UserActs(line, mode)
    \/ Display

SpecUser == Init /\ [][NextUser]_vars

\* ------------------------------------------------- SimplePrompt.get_input
\* What the terminal can raise in place of a line.
ReadErrors == {"KeyboardInterrupt", "EOFError"}

\* get_input is called
CallGetInput ==
    /\ reading.pc = "idle"
    /\ reading' = [pc |-> "first", reads |-> <<>>]
    /\ UNCHANGED <<session, last, files, executor, history>>

\* the end of get_input: the history is updated and result.strip() returned
GetInputReturns(reads, result) ==
    /\ history' = history_add(history, result)
    /\ last' = [op |-> "get_input", inputs |-> LinesOf(reads), pre |-> history,
                fault |-> 0, raised |-> FALSE, exc |-> "",
                results |-> <<StripWhite(result)>>, calls |-> reads, handlers |-> <<>>]
    /\ reading' = NotReading
    /\ UNCHANGED <<session, files, executor>>

\* the first line is read
ReadFirst(text) ==
    /\ reading.pc = "first"
    /\ IF StartsMultiline(text)
       THEN /\ reading' = [pc |-> "more", reads |-> <<LineRead(text)>>]
            /\ UNCHANGED <<session, last, files, executor, history>>
       ELSE GetInputReturns(<<LineRead(text)>>, text)

\* except (KeyboardInterrupt, EOFError): raise KeyboardInterrupt()
FirstReadRaises(exc) ==
    /\ reading.pc = "first"
    /\ last' = [op |-> "get_input", inputs |-> <<>>, pre |-> history,
                fault |-> 0, raised |-> TRUE, exc |-> "KeyboardInterrupt",
                results |-> <<>>, calls |-> <<ReadRaised(exc)>>, handlers |-> <<>>]
    /\ reading' = NotReading
    /\ UNCHANGED <<session, files, executor, history>>

\* a continuation line is read inside the while True loop
ContinuationRead(reads) ==
    IF Completes(LinesOf(reads))
    THEN GetInputReturns(reads, JoinLines(LinesOf(reads)))
    ELSE /\ reading' = [pc |-> "more", reads |-> reads]
         /\ UNCHANGED <<session, last, files, executor, history>>

ReadMore(text) ==
    /\ reading.pc = "more"
    /\ ContinuationRead(Append(reading.reads, LineRead(text)))

\* the inner except (KeyboardInterrupt, EOFError): result = "\n".join(lines)
MoreReadRaises(exc) ==
    /\ reading.pc = "more"
    /\ GetInputReturns(Append(reading.reads, ReadRaised(exc)),
                       JoinLines(LinesOf(reading.reads)))

\* Lines typed at the prompt while a literal is open or not.
MaxReads == 3
MaxEntries == 1

PromptLines == {<<"\"","\"","\"","a">>, <<"b","\"","\"","\"">>, <<"c">>, <<" ">>, <<"\"","\"","\""," ","\"","\"","\"">>, <<" ","d">>}

InitPrompt ==
    /\ session \in {[buf |-> b, line |-> 1, col |-> 0, mode |-> ModeNormal, anchor |-> 0] :
                        b \in {<<LineA>>}}
    /\ last = NoOp
    /\ Installed

NextPrompt ==
    \/ /\ last.op = "none"
       /\ Len(history) < MaxEntries
       /\ CallGetInput
    \/ \E text \in PromptLines : ReadFirst(text)
    \/ \E exc \in ReadErrors : FirstReadRaises(exc)
    \/ /\ Len(reading.reads) < MaxReads
       /\ \E text \in PromptLines : ReadMore(text)
    \/ \E exc \in ReadErrors : MoreReadRaises(exc)
    \/ Display

SpecPrompt == InitPrompt /\ [][NextPrompt]_vars

\* Numbered commands entered one after the other, each new one the next
\* number, any earlier one entered again, with or without blanks around it,
\* and lines of blanks only: one command more than the history holds.
Newest(hist) ==
    IF Len(hist) = 0 THEN 0
    ELSE CHOOSE n \in 1..(HistoryMax + 1) :
             /\ InHistory(hist, IntStr(n))
             /\ \A k \in (n + 1)..(HistoryMax + 1) : ~InHistory(hist, IntStr(k))

HistoryLines(hist) ==
    {IntStr(n) : n \in 1..(IF Newest(hist) > HistoryMax THEN HistoryMax + 1
                           ELSE Newest(hist) + 1)}
        \cup {<<" ">> \o IntStr(1) \o <<" ">>, <<>>, <<" "," ">>}

NextHistory ==
    \/ /\ last.op = "none"
       /\ CallGetInput
    \/ \E text \in HistoryLines(history) : ReadFirst(text)
    \/ \E exc \in ReadErrors : FirstReadRaises(exc)
    \/ Display

SpecHistory == InitPrompt /\ [][NextHistory]_vars

\* ================================================================ the claims
ErrorMarker == <<"E","r","r","o","r">>

AllCallsOk == \A i \in 1..Len(last.calls) : last.calls[i].ok

\* l[:k] and l[k:] for k counted from the front, clamped to the list
Take(l, k) == IF k <= 0 THEN <<>> ELSE IF k >= Len(l) THEN l ELSE SubSeq(l, 1, k)
Drop(l, k) == IF k <= 0 THEN l ELSE IF k >= Len(l) THEN <<>> ELSE SubSeq(l, k + 1, Len(l))

Count(l, x) == Cardinality({i \in 1..Len(l) : l[i] = x})

\* a is b with some elements left out
RECURSIVE IsSubsequence(_, _)
IsSubsequence(a, b) ==
    IF Len(a) = 0 THEN TRUE
    ELSE IF Len(b) = 0 THEN FALSE
    ELSE IF a[1] = b[1] THEN IsSubsequence(Tail(a), Tail(b))
    ELSE IsSubsequence(a, Tail(b))

\* execute ran one command, and it was handler name
RanHandler(name) ==
    /\ last.op = "execute"
    /\ Len(last.handlers) = 1
    /\ last.handlers[1].name = name

\* ---------------------------------------------------------------------- C1
\* C1: execute never raises: whatever the input and whichever session call
\* fails, it returns one string; for an input that does not parse the string
\* contains "Error" and the text of the input.
C1_ExecuteNeverRaises ==
    last.op = "execute" =>
        /\ ~last.raised
        /\ Len(last.results) = 1
        /\ Parse(last.inputs[1]).raised =>
               /\ Contains(last.results[1], ErrorMarker)
               /\ Contains(last.results[1], SourceText(last.inputs[1]))
               /\ last.calls = <<>>

C1_Witness ==
    /\ last.op = "execute"
    /\ last.inputs[1] = CmdGoto(1) \o <<Junk>>
    /\ Parse(last.inputs[1]).raised
    /\ Contains(last.results[1], SourceText(last.inputs[1]))

\* ---------------------------------------------------------------------- C2
\* C2: every handler returns a string and never raises; when a session call
\* it made raised, at whichever step, the string contains "Error".
C2_HandlersNeverRaise ==
    \A i \in 1..Len(last.handlers) :
        /\ ~last.handlers[i].raised
        /\ last.handlers[i].faulted => Contains(last.handlers[i].ret, ErrorMarker)

\* VISUAL LINES whose third session call, the move to the end line, raised
C2_Witness ==
    /\ RanHandler("visual_lines")
    /\ Len(last.calls) = 3
    /\ last.calls[1].ok /\ last.calls[2].ok /\ ~last.calls[3].ok
    /\ last.handlers[1].faulted
    /\ Contains(last.handlers[1].ret, ErrorMarker)

\* ---------------------------------------------------------------------- C3
\* C3: a Result contains "Error" only when parsing or a session call failed:
\* for an input that parses and whose session calls all succeed, the Result
\* of execute does not contain "Error".
C3_MarkerOnlyOnFailure ==
    (/\ last.op = "execute"
     /\ ~Parse(last.inputs[1]).raised
     /\ AllCallsOk)
        => ~Contains(last.results[1], ErrorMarker)

\* ---------------------------------------------------------------------- C4
\* The Results and the session that executing inputs[i..] one at a time,
\* each to completion before the next, leaves from machine m.
RECURSIVE InOrder(_, _, _)
InOrderRest(o, inputs, i) ==
    [InOrder(o.m, inputs, i + 1) EXCEPT !.results = <<o.ret>> \o @]

InOrder(m, inputs, i) ==
    IF i > Len(inputs) THEN [s |-> m.s, results |-> <<>>]
    ELSE InOrderRest(execute(m, inputs[i]), inputs, i)

\* C4: execute_batch returns one Result per input, the i-th that of the i-th
\* input executed after the ones before it; an input that fails to parse or
\* whose handler reports an error has an error Result at its place and the
\* inputs after it are still executed (GOTO LINE beyond the buffer, then
\* INSERT "x": two Results, the first an error, and the line is inserted).
C4_BatchInOrder ==
    last.op = "execute_batch" =>
        /\ ~last.raised
        /\ Len(last.results) = Len(last.inputs)
        /\ last.results = InOrder(Machine(last.pre, last.fault), last.inputs, 1).results
        /\ session = InOrder(Machine(last.pre, last.fault), last.inputs, 1).s
        /\ \A i \in 1..Len(last.inputs) :
               Parse(last.inputs[i]).raised => Contains(last.results[i], ErrorMarker)
        /\ (last.inputs = <<CmdGoto(MaxLine), CmdInsert(Str1(TextX))>> /\ last.fault = 0)
               => /\ Contains(last.results[1], ErrorMarker)
                  /\ last.results[2] = <<"I","n","s","e","r","t","e","d"," ","t","e","x","t"," ","a","t"," ","c","u","r","r","e","n","t"," ","p","o","s","i","t","i","o","n">>
                  /\ session.buf = Take(last.pre.buf, last.pre.line) \o <<TextX>>
                                       \o Drop(last.pre.buf, last.pre.line)

C4_Witness ==
    /\ last.op = "execute_batch"
    /\ last.inputs = <<CmdGoto(MaxLine), CmdInsert(Str1(TextX))>>
    /\ last.fault = 0
    /\ Contains(last.results[1], ErrorMarker)
    /\ Len(session.buf) = Len(last.pre.buf) + 1

\* ---------------------------------------------------------------------- C5
\* INSERT ... AT LINE ran alone and every session call succeeded
InsertedAtLine ==
    /\ RanHandler("insert_text")
    /\ last.handlers[1].nums # None
    /\ AllCallsOk

\* C5: INSERT with AT LINE L puts the text at line L: the new buffer is
\* old[1..L-1], then the lines of the text, then old[L..], for every L the
\* grammar accepts, L = 0 and L beyond the end included.
C5_InsertAtLinePlacesText ==
    InsertedAtLine =>
        session.buf = Take(last.pre.buf, last.handlers[1].nums[1] - 1)
                          \o SplitOn(last.handlers[1].texts[1], NL)
                          \o Drop(last.pre.buf, last.handlers[1].nums[1] - 1)

\* ---------------------------------------------------------------------- C6
\* INSERT ran alone, with or without a line, and every session call succeeded
Inserted == RanHandler("insert_text") /\ AllCallsOk

InsertedLines == SplitOn(last.handlers[1].texts[1], NL)

\* C6: INSERT loses and overwrites nothing: the buffer has exactly N more
\* lines, the old lines are all there in their old order, and what was added
\* is the N lines of the text.
C6_InsertKeepsContent ==
    Inserted =>
        /\ Len(session.buf) = Len(last.pre.buf) + Len(InsertedLines)
        /\ IsSubsequence(last.pre.buf, session.buf)
        /\ \A k \in 1..Len(session.buf) :
               Count(session.buf, session.buf[k])
                   = Count(last.pre.buf, session.buf[k]) + Count(InsertedLines, session.buf[k])

\* two lines inserted AT LINE 0 into a buffer that has lines
C6_Witness ==
    /\ Inserted
    /\ last.handlers[1].nums = <<0>>
    /\ Len(InsertedLines) = 2
    /\ Len(last.pre.buf) > 0
    /\ Len(session.buf) = Len(last.pre.buf) + 2

\* ---------------------------------------------------------------------- C7
InsertedAtCursor ==
    /\ RanHandler("insert_text")
    /\ last.handlers[1].nums = None
    /\ AllCallsOk

\* C7: INSERT without AT LINE puts the text right after the line the cursor
\* was on when the command was called.
C7_InsertAfterCursor ==
    InsertedAtCursor =>
        session.buf = Take(last.pre.buf, last.pre.line) \o InsertedLines
                          \o Drop(last.pre.buf, last.pre.line)

\* the cursor was on a line that is not the last
C7_Witness ==
    /\ InsertedAtCursor
    /\ last.pre.line < Len(last.pre.buf)
    /\ session.buf[last.pre.line + 1] = TextX
    /\ session.buf[last.pre.line + 2] = last.pre.buf[last.pre.line + 1]

\* ---------------------------------------------------------------------- C8
\* C8: DELETE LINES start TO end with 1 <= start <= end <= len asks the
\* session to replace the range [start-1, end) by no lines, and leaves
\* old[1..start-1] followed by old[end+1..].
C8_DeleteLinesRange ==
    (/\ RanHandler("delete_lines")
     /\ last.fault = 0
     /\ 1 <= last.handlers[1].nums[1]
     /\ last.handlers[1].nums[1] <= last.handlers[1].nums[2]
     /\ last.handlers[1].nums[2] <= Len(last.pre.buf))
        => /\ Len(last.calls) = 1
           /\ last.calls[1].api = "buf_set_lines"
           /\ last.calls[1].n = <<last.handlers[1].nums[1] - 1, last.handlers[1].nums[2]>>
           /\ last.calls[1].l = <<>>
           /\ last.calls[1].ok
           /\ session.buf = SubSeq(last.pre.buf, 1, last.handlers[1].nums[1] - 1)
                                \o SubSeq(last.pre.buf, last.handlers[1].nums[2] + 1,
                                          Len(last.pre.buf))
           /\ last.results = <<<<"D","e","l","e","t","e","d"," ","l","i","n","e","s"," ">> \o IntStr(last.handlers[1].nums[1])
                                   \o <<" ","t","o"," ">> \o IntStr(last.handlers[1].nums[2])>>

\* DELETE LINES 2 TO 3 of three lines
C8_Witness ==
    /\ RanHandler("delete_lines")
    /\ last.handlers[1].nums = <<2, 3>>
    /\ Len(last.pre.buf) = 3
    /\ session.buf = <<last.pre.buf[1]>>

\* ---------------------------------------------------------------------- C9
\* INSERT text AT LINE L and then DELETE LINES L TO E, L inside the buffer,
\* every session call succeeding
RoundTripRan ==
    /\ last.op = "execute_batch"
    /\ Len(last.handlers) = 2
    /\ last.handlers[1].name = "insert_text"
    /\ last.handlers[2].name = "delete_lines"
    /\ last.handlers[1].nums # None
    /\ last.handlers[2].nums[1] = last.handlers[1].nums[1]
    /\ 1 <= last.handlers[1].nums[1]
    /\ last.handlers[1].nums[1] <= Len(last.pre.buf)
    /\ AllCallsOk

\* C9: after INSERT T AT LINE L, DELETE LINES L TO L gives the old buffer
\* back exactly when T is one line; for T of N lines DELETE LINES L TO L+N-1
\* gives it back.
C9_InsertDeleteRoundTrip ==
    RoundTripRan =>
        /\ last.handlers[2].nums[2] = last.handlers[1].nums[1]
               => (session.buf = last.pre.buf <=> Len(InsertedLines) = 1)
        /\ last.handlers[2].nums[2] = last.handlers[1].nums[1] + Len(InsertedLines) - 1
               => session.buf = last.pre.buf

\* two lines inserted and the two deleted again
C9_Witness ==
    /\ RoundTripRan
    /\ Len(InsertedLines) = 2
    /\ last.handlers[2].nums[2] = last.handlers[1].nums[1] + 1
    /\ Len(last.pre.buf) = 2
    /\ session.buf = last.pre.buf

\* --------------------------------------------------------------------- C10
\* GOTO LINE n ran alone and the session accepted the move
WentTo ==
    /\ RanHandler("goto_line")
    /\ AllCallsOk

\* the same GOTO LINE n ran twice, the session accepting both moves
WentTwice ==
    /\ last.op = "execute_batch"
    /\ Len(last.handlers) = 2
    /\ last.handlers[1].name = "goto_line"
    /\ last.handlers[2].name = "goto_line"
    /\ last.handlers[1].nums = last.handlers[2].nums
    /\ AllCallsOk

\* C10: GOTO LINE n puts the cursor on line n, column 0, and changes nothing
\* else; twice in a row leaves the session as once does.
C10_GotoIdempotent ==
    /\ WentTo => session = [last.pre EXCEPT !.line = last.handlers[1].nums[1], !.col = 0]
    /\ WentTwice =>
           /\ session = [last.pre EXCEPT !.line = last.handlers[1].nums[1], !.col = 0]
           /\ session = execute(Machine(last.pre, 0), last.inputs[1]).m.s

\* twice to line 2 from another line, in line-wise visual mode
C10_Witness ==
    /\ WentTwice
    /\ last.handlers[1].nums = <<2>>
    /\ last.pre.line # 2
    /\ last.pre.mode = ModeVisualLine
    /\ session.line = 2


\* --------------------------------------------------------------------- C11
\* FIND ran alone, no session call failing by itself
FindRan == RanHandler("find_text") /\ last.fault = 0

FindPattern == last.handlers[1].texts[1]

\* the probing search: search(pattern, "nW")
IsProbe(c, pattern) ==
    c.api = "call_search" /\ c.t = pattern /\ c.l = <<<<"n","W">>>>

\* C11: FIND of a pattern for which the forward no-wrap search reports no
\* line returns exactly "Pattern '<p>' not found", makes no session call
\* after the search, and leaves cursor, buffer and mode as they were.
C11_FindNotFound ==
    (FindRan /\ Len(FindPattern) > 0 /\ SearchLine(last.pre, FindPattern) <= 0)
        => /\ last.results = <<<<"P","a","t","t","e","r","n"," ","'">> \o FindPattern \o <<"'"," ","n","o","t"," ","f","o","u","n","d">>>>
           /\ Len(last.calls) = 1
           /\ IsProbe(last.calls[1], FindPattern)
           /\ last.calls[1].ok
           /\ session = last.pre

\* the pattern is in the buffer, but not after the cursor
C11_Witness ==
    /\ FindRan
    /\ SearchLine(last.pre, FindPattern) = 0
    /\ \E k \in 1..Len(last.pre.buf) : Contains(last.pre.buf[k], FindPattern)
    /\ last.results = <<<<"P","a","t","t","e","r","n"," ","'">> \o FindPattern \o <<"'"," ","n","o","t"," ","f","o","u","n","d">>>>

\* --------------------------------------------------------------------- C12
\* C12: FIND of a pattern for which the forward no-wrap search reports line
\* k > 0 issues the probing search and then the navigable search for the
\* same pattern, returns "Found '<p>' at line k", and leaves the cursor on
\* line k.
C12_FindFound ==
    (FindRan /\ SearchLine(last.pre, FindPattern) > 0)
        => /\ Len(last.calls) = 2
           /\ IsProbe(last.calls[1], FindPattern)
           /\ last.calls[1].ok
           /\ last.calls[2].api = "command"
           /\ last.calls[2].t = <<"/">> \o FindPattern
           /\ last.calls[2].ok =>
                  /\ last.results = <<<<"F","o","u","n","d"," ","'">> \o FindPattern \o <<"'"," ","a","t"," ","l","i","n","e"," ">>
                                          \o IntStr(SearchLine(last.pre, FindPattern))>>
                  /\ session.line = SearchLine(last.pre, FindPattern)

\* --------------------------------------------------------------------- C13
\* REPLACE ran alone and its session call succeeded
ReplaceRan == RanHandler("replace_text") /\ last.fault = 0 /\ AllCallsOk

\* line with every occurrence of the string old replaced by the string new
RECURSIVE ReplacedLiterally(_, _, _)
ReplacedLiterally(line, old, new) ==
    IF Len(line) = 0 \/ Len(old) = 0 THEN line
    ELSE IF StartsWith(line, old)
    THEN new \o ReplacedLiterally(SubSeq(line, Len(old) + 1, Len(line)), old, new)
    ELSE <<line[1]>> \o ReplacedLiterally(Tail(line), old, new)

\* C13: after a successful REPLACE old WITH new, for every pair of literal
\* strings, every occurrence of old on every line is replaced by new and all
\* other text is unchanged.
C13_ReplaceGlobally ==
    ReplaceRan =>
        /\ Len(session.buf) = Len(last.pre.buf)
        /\ \A k \in 1..Len(last.pre.buf) :
               session.buf[k] = ReplacedLiterally(last.pre.buf[k],
                                    last.handlers[1].texts[1], last.handlers[1].texts[2])

\* --------------------------------------------------------------------- C14
\* DELETE with no target ran alone, no session call failing by itself
DeleteRan == RanHandler("delete") /\ last.fault = 0

\* the two session calls of DELETE: the mode is read, the Normal-mode
\* command keys is run
DeleteCalls(keys) ==
    /\ Len(last.calls) = 2
    /\ last.calls[1].api = "get_mode"
    /\ last.calls[2].api = "command"
    /\ last.calls[2].t = <<"n","o","r","m","a","l","!"," ">> \o keys

\* C14: DELETE with no target deletes the visual selection and returns
\* "Deleted visual selection" if and only if the mode read at call time is a
\* visual one, character-wise, line-wise or block-wise; otherwise it deletes
\* the one character under the cursor and returns "Deleted character under
\* cursor".
C14_DeleteBranchesOnMode ==
    DeleteRan =>
        IF last.pre.mode \in VisualModes
        THEN /\ DeleteCalls(<<"d">>)
             /\ last.results = <<<<"D","e","l","e","t","e","d"," ","v","i","s","u","a","l"," ","s","e","l","e","c","t","i","o","n">>>>
             /\ session = NormalD(last.pre)
        ELSE /\ DeleteCalls(<<"x">>)
             /\ last.results = <<<<"D","e","l","e","t","e","d"," ","c","h","a","r","a","c","t","e","r"," ","u","n","d","e","r"," ","c","u","r","s","o","r">>>>
             /\ session = NormalX(last.pre)

\* --------------------------------------------------------------------- C15
\* VISUAL LINES ran alone and every session call succeeded
VisualLinesRan == RanHandler("visual_lines") /\ last.fault = 0 /\ AllCallsOk

\* C15: after a successful VISUAL LINES start TO end, whatever the mode
\* before, the session is in line-wise visual mode, the selection starts at
\* line start, the cursor is on line end, and the Result is "Selected lines
\* start to end".
C15_VisualLinesSelects ==
    VisualLinesRan =>
        /\ session.mode = ModeVisualLine
        /\ session.anchor = last.handlers[1].nums[1]
        /\ session.line = last.handlers[1].nums[2]
        /\ last.results = <<<<"S","e","l","e","c","t","e","d"," ","l","i","n","e","s"," ">> \o IntStr(last.handlers[1].nums[1])
                                \o <<" ","t","o"," ">> \o IntStr(last.handlers[1].nums[2])>>

\* --------------------------------------------------------------------- C16
\* the session calls of VISUAL LINES start TO end, in order
VisualLinesCalls(start, end) ==
    <<[api |-> "win_set_cursor", n |-> <<start, 0>>, t |-> <<>>],
      [api |-> "command", n |-> <<>>, t |-> <<"n","o","r","m","a","l","!"," ","V">>],
      [api |-> "win_set_cursor", n |-> <<end, 0>>, t |-> <<>>]>>

\* calls are the first of expected, each made because the one before it
\* succeeded, up to the first that raised or to the last of them
MadeInOrder(calls, expected) ==
    /\ Len(calls) >= 1
    /\ Len(calls) <= Len(expected)
    /\ \A i \in 1..Len(calls) :
           /\ calls[i].api = expected[i].api
           /\ calls[i].n = expected[i].n
           /\ calls[i].t = expected[i].t
           /\ calls[i].l = <<>>
           /\ i < Len(calls) => calls[i].ok
    /\ Len(calls) < Len(expected) => ~calls[Len(calls)].ok

\* C16: VISUAL LINES and DELETE LINES do not look at the order of their
\* bounds: with start > end as with start <= end the handler moves the
\* cursor to start, enters line-wise visual mode and moves to end, or asks
\* for the lines [start-1, end) to be replaced by none, and returns the
\* success message if the session accepted the calls and an error Result
\* with the session's message if it raised.
C16_NoRangeValidation ==
    /\ RanHandler("visual_lines") =>
           /\ MadeInOrder(last.calls,
                  VisualLinesCalls(last.handlers[1].nums[1], last.handlers[1].nums[2]))
           /\ IF AllCallsOk
              THEN last.results =
                       <<<<"S","e","l","e","c","t","e","d"," ","l","i","n","e","s"," ">> \o IntStr(last.handlers[1].nums[1])
                             \o <<" ","t","o"," ">> \o IntStr(last.handlers[1].nums[2])>>
              ELSE StartsWith(last.results[1],
                       <<"E","r","r","o","r"," ","s","e","l","e","c","t","i","n","g"," ","l","i","n","e","s"," ">> \o IntStr(last.handlers[1].nums[1])
                           \o <<"-">> \o IntStr(last.handlers[1].nums[2]) \o <<":"," ">>)
    /\ RanHandler("delete_lines") =>
           /\ MadeInOrder(last.calls,
                  <<[api |-> "buf_set_lines",
                     n |-> <<last.handlers[1].nums[1] - 1, last.handlers[1].nums[2]>>,
                     t |-> <<>>]>>)
           /\ IF AllCallsOk
              THEN last.results =
                       <<<<"D","e","l","e","t","e","d"," ","l","i","n","e","s"," ">> \o IntStr(last.handlers[1].nums[1])
                             \o <<" ","t","o"," ">> \o IntStr(last.handlers[1].nums[2])>>
              ELSE StartsWith(last.results[1],
                       <<"E","r","r","o","r"," ","d","e","l","e","t","i","n","g"," ","l","i","n","e","s"," ">> \o IntStr(last.handlers[1].nums[1])
                           \o <<"-">> \o IntStr(last.handlers[1].nums[2]) \o <<":"," ">>)

\* VISUAL LINES 2 TO 1, accepted by the session: the selection runs backwards
C16_Witness ==
    /\ RanHandler("visual_lines")
    /\ last.handlers[1].nums = <<2, 1>>
    /\ AllCallsOk
    /\ Len(last.calls) = 3
    /\ last.pre.mode = ModeNormal
    /\ session.anchor = 2
    /\ session.line = 1


\* --------------------------------------------------------------------- C17
\* the Result execute returns for an input that does not parse
ParseErrorResult(input) ==
    <<"E","r","r","o","r"," ","e","x","e","c","u","t","i","n","g"," ","'">> \o SourceText(input) \o <<"'",":"," ">> \o ParseErrorMsg

\* validate_command returns True for input, called on session s
Validates(s, input) ==
    LET v == validate_command(Machine(s, 0), input)
    IN ~v.raised /\ v.ret = TRUE

\* C17: validate_command never raises and returns False exactly for the
\* inputs that do not parse; get_parse_tree raises for exactly the inputs
\* validate_command returns False for; execute returns the parse-error
\* Result for exactly those inputs; and neither of the first two touches the
\* session.
C17_ParseAgreement ==
    /\ last.op = "validate_command" =>
           /\ ~last.raised
           /\ last.results = <<~Parse(last.inputs[1]).raised>>
           /\ session = last.pre /\ last.calls = <<>>
    /\ last.op = "get_parse_tree" =>
           /\ last.raised <=> ~Validates(last.pre, last.inputs[1])
           /\ ~last.raised => last.results = <<Parse(last.inputs[1]).ret>>
           /\ session = last.pre /\ last.calls = <<>>
    /\ last.op = "execute" =>
           (last.results = <<ParseErrorResult(last.inputs[1])>>
                <=> ~Validates(last.pre, last.inputs[1]))

\* get_parse_tree raised for a command followed by text that is no command
C17_Witness ==
    /\ last.op = "get_parse_tree"
    /\ last.inputs[1] = CmdGoto(1) \o <<Junk>>
    /\ last.raised
    /\ ~Validates(last.pre, last.inputs[1])

\* --------------------------------------------------------------------- C18
\* execute ran an input made of the two commands of pair
RanPair(pair) == last.op = "execute" /\ last.inputs[1] = pair[1] \o pair[2]

\* C18: the commands of one input are run in source order, each on the
\* session the one before left, with one Result per command in that order;
\* an error Result of the first does not keep the second from running.
C18_CommandsInSourceOrder ==
    \A pair \in MultiPairs :
        RanPair(pair) =>
            /\ Len(last.handlers) = 2
            /\ <<last.handlers[1].ret, last.handlers[2].ret>>
                   = InOrder(Machine(last.pre, last.fault), pair, 1).results
            /\ transform(Machine(last.pre, last.fault), Parse(last.inputs[1]).ret).ret
                   = InOrder(Machine(last.pre, last.fault), pair, 1).results
            /\ session = InOrder(Machine(last.pre, last.fault), pair, 1).s
            /\ last.results = <<last.handlers[1].ret>>

\* GOTO LINE beyond the buffer and INSERT "x" in one input: the first
\* Result is an error and the line is inserted
C18_Witness ==
    /\ RanPair(<<CmdGoto(MaxLine), CmdInsert(Str1(TextX))>>)
    /\ last.fault = 0
    /\ Contains(last.handlers[1].ret, ErrorMarker)
    /\ last.handlers[2].ret = <<"I","n","s","e","r","t","e","d"," ","t","e","x","t"," ","a","t"," ","c","u","r","r","e","n","t"," ","p","o","s","i","t","i","o","n">>
    /\ Len(session.buf) = Len(last.pre.buf) + 1

StringTokens(input) == SelectSeq(input, LAMBDA tok : tok.k = "STRING")

\* the characters between the opening and the closing quote of a literal
BetweenQuotes(tok) == SubSeq(tok.s, 2, Len(tok.s) - 1)

\* C20: the texts a handler is called with are, for every single-line
\* literal of INSERT, FIND and REPLACE, exactly the characters between its
\* opening and its closing quote, quote characters among them included.
C20_LiteralsVerbatim ==
    (/\ last.op = "execute"
     /\ Len(last.handlers) = 1
     /\ StringTokens(last.inputs[1]) # <<>>)
        => last.handlers[1].texts =
               [i \in 1..Len(StringTokens(last.inputs[1])) |->
                   BetweenQuotes(StringTokens(last.inputs[1])[i])]

\* --------------------------------------------------------------------- C21
\* the triple-quoted literals of an input, in order
MultilineTokens(input) == SelectSeq(input, LAMBDA tok : tok.k = "MULTILINE_STRING")

\* INSERT of a triple-quoted literal ran alone
InsertedTripleQuoted ==
    /\ RanHandler("insert_text")
    /\ Len(MultilineTokens(last.inputs[1])) = 1
    /\ StartsWith(MultilineTokens(last.inputs[1])[1].s, <<"\"","\"","\"">>)
    /\ EndsWith(MultilineTokens(last.inputs[1])[1].s, <<"\"","\"","\"">>)

\* C21: for an INSERT literal that starts and ends with three double quotes
\* the handler is called with the literal less exactly three characters at
\* each end: newlines, single quotes and double quotes of the payload are
\* all kept.
C21_TripleQuotedPayloadKept ==
    InsertedTripleQuoted =>
        /\ Len(last.handlers[1].texts[1]) = Len(MultilineTokens(last.inputs[1])[1].s) - 6
        /\ <<"\"","\"","\"">> \o last.handlers[1].texts[1] \o <<"\"","\"","\"">>
               = MultilineTokens(last.inputs[1])[1].s

\* a payload with a newline, a double quote, and single quotes at its ends
C21_Witness ==
    /\ InsertedTripleQuoted
    /\ last.handlers[1].texts[1] = TextPayload
    /\ Contains(TextPayload, <<NL>>)
    /\ Contains(TextPayload, <<"\"">>)
    /\ AllCallsOk
    /\ Len(session.buf) = Len(last.pre.buf) + 2

\* --------------------------------------------------------------------- C22
\* the grammar source the call read: the path given, or the default path
SourceRead ==
    IF last.op = "reload_grammar" THEN files[last.pre.grammar_file]
    ELSE IF last.inputs[1] = None THEN files[DefaultPath]
    ELSE files[last.inputs[1][1]]

\* construction or reload met a missing or uncompilable grammar source
GrammarFault ==
    /\ last.op \in {"construct", "reload_grammar"}
    /\ SourceRead.kind # "grammar"

\* C22: when the grammar source is missing or does not compile, construction
\* and reload fail with GrammarError, for the default path and for a path
\* given explicitly, and no executor comes out of the failed call.
C22_GrammarErrorRaised ==
    GrammarFault =>
        /\ last.raised
        /\ last.exc = "GrammarError"
        /\ executor = last.pre

\* --------------------------------------------------------------------- C24
\* validate_command of the executor as it is now accepts the input
Accepts(input) == Validates(session, input)

\* the parser with the rules parser accepts the input
Recognizes(parser, input) == ~parser_parse(parser, input).raised

\* C24: a reload that succeeds leaves the executor with the parser of the
\* grammar source as it is now, which decides what the next call accepts;
\* a reload that fails raises and leaves the executor with the parser it
\* had, which goes on deciding what the next call accepts.
C24_ReloadReplacesOrKeeps ==
    last.op = "reload_grammar" =>
        /\ last.raised <=> SourceRead.kind # "grammar"
        /\ executor.built /\ executor.grammar_file = last.pre.grammar_file
        /\ executor.parser = IF last.raised THEN last.pre.parser ELSE SourceRead.rules
        /\ \A input \in GrammarInputs :
               Accepts(input) <=> Recognizes(executor.parser, input)
        /\ \A input \in GrammarInputs :
               Contains(execute(Machine(session, 0), input).ret, ErrorMarker)
                   <=> ~Recognizes(executor.parser, input)

\* a grammar without FIND was loaded, the source then became uncompilable
\* and the reload failed: FIND is still refused, GOTO still accepted
C24_Witness ==
    /\ last.op = "reload_grammar"
    /\ last.raised
    /\ SourceRead = NotAGrammar
    /\ executor.parser = GrammarWithoutFind
    /\ ~Accepts(CmdFind(LineA))
    /\ Accepts(CmdGoto(1))

\* --------------------------------------------------------------------- C23
\* what the call would do and return, worked out from nothing but the
\* session it met and its input
FromSessionAlone == execute(Machine(last.pre, last.fault), last.inputs[1])

\* C23: what execute does to the session and what it returns is a function
\* of the input and of the session as it is when the call is made, whatever
\* was called before: INSERT without a line inserts after the line the
\* cursor is on at the call, and DELETE takes the branch of the mode the
\* editor is in at the call, also when the cursor or the mode was changed
\* outside the executor since the call before.
C23_NoStateBetweenCalls ==
    (last.op = "execute" /\ last.fault = 0) =>
        /\ session = FromSessionAlone.m.s
        /\ last.results = <<FromSessionAlone.ret>>
        /\ InsertedAtCursor =>
               session.buf = Take(last.pre.buf, last.pre.line) \o InsertedLines
                                 \o Drop(last.pre.buf, last.pre.line)
        /\ RanHandler("delete") =>
               IF IsVisualMode(last.pre.mode)
               THEN DeleteCalls(<<"d">>) /\ session = NormalD(last.pre)
               ELSE DeleteCalls(<<"x">>) /\ session = NormalX(last.pre)

\* an INSERT through the executor put x into the buffer, the user then
\* moved to line 2 and started a selection there, and DELETE deleted it
C23_Witness ==
    /\ last.op = "execute"
    /\ RanHandler("delete")
    /\ \E i \in 1..Len(last.pre.buf) : last.pre.buf[i] = TextX
    /\ last.pre.line = 2
    /\ last.pre.mode = ModeVisualLine
    /\ DeleteCalls(<<"d">>)
    /\ Len(session.buf) = Len(last.pre.buf) - 1

\* --------------------------------------------------------------------- C25
\* no handler ran, no session call was made, and buffer, cursor and mode
\* are what they were
SessionUntouched ==
    /\ last.calls = <<>>
    /\ last.handlers = <<>>
    /\ session.buf = last.pre.buf
    /\ session.line = last.pre.line /\ session.col = last.pre.col
    /\ session.mode = last.pre.mode /\ session.anchor = last.pre.anchor

\* C25: parsing is all or nothing: execute of an input that does not parse,
\* also one whose first commands are well formed, makes no session call and
\* leaves buffer, cursor and mode as they were; validate_command and
\* get_parse_tree make no session call whatever the input.
C25_ParseFailureTouchesNothing ==
    /\ (last.op = "execute" /\ Parse(last.inputs[1]).raised) => SessionUntouched
    /\ last.op \in {"validate_command", "get_parse_tree"} => SessionUntouched

\* GOTO LINE 1 followed by text that is no command, the cursor on line 2:
\* the cursor stays on line 2
C25_Witness ==
    /\ last.op = "execute"
    /\ last.inputs[1] = CmdGoto(1) \o <<Junk>>
    /\ last.pre.line = 2
    /\ session.line = 2
    /\ SessionUntouched
    /\ Contains(last.results[1], ErrorMarker)

\* --------------------------------------------------------------------- C26
\* one handler ran, the session refused one of its calls by itself, and the
\* handler returned an error Result
HandlerFailed ==
    /\ last.op = "execute"
    /\ Len(last.handlers) = 1
    /\ last.fault = 0
    /\ last.handlers[1].faulted
    /\ Contains(last.handlers[1].ret, ErrorMarker)

\* C26: a handler that returns an error Result leaves the session as it
\* found it: buffer, cursor, mode and selection are what they were before
\* the call, whichever of its session calls failed.
C26_FailedHandlerLeavesSession ==
    HandlerFailed => session = last.pre

\* --------------------------------------------------------------------- C27
\* the number of commands the input of the call parses into (0: no parse)
Commands == IF Parse(last.inputs[1]).raised THEN 0 ELSE Len(Parse(last.inputs[1]).ret)

\* the handler the transformer calls for a command rule
RuleHandler(rule) ==
    CASE rule = "delete_command" -> "delete"
      [] rule = "lines_range" -> "delete_lines"
      [] OTHER -> rule

\* C27: execute of an input that parses into more than one command runs the
\* handler of every command and returns the Result of the first one only:
\* the Results of the others, error Results too, are not returned.
C27_FirstResultOnly ==
    (last.op = "execute" /\ Commands > 1) =>
        /\ Len(last.handlers) = Commands
        /\ \A i \in 1..Commands :
               last.handlers[i].name = RuleHandler(Parse(last.inputs[1]).ret[i].rule)
        /\ ~last.raised
        /\ last.results = <<last.handlers[1].ret>>

\* INSERT "x" and GOTO LINE beyond the buffer in one input: the line is
\* inserted, the second Result is an error, and what comes back is the
\* first Result, with no trace of the error
C27_Witness ==
    /\ RanPair(<<CmdInsert(Str1(TextX)), CmdGoto(MaxLine)>>)
    /\ last.fault = 0
    /\ Len(last.handlers) = 2
    /\ Contains(last.handlers[2].ret, ErrorMarker)
    /\ ~Contains(last.results[1], ErrorMarker)
    /\ Len(session.buf) = Len(last.pre.buf) + 1

\* --------------------------------------------------------------------- C28
\* get_input returned the command entered
Entered == last.op = "get_input" /\ ~last.raised

\* C28: the history never holds more than 100 entries, an empty or
\* blank-only entry, or an entry twice; a get_input that returns a command
\* not in the history appends it at the end, dropping the oldest entry when
\* there were 100 already, and any other get_input leaves the history as it
\* was.
C28_HistoryInvariant ==
    /\ Len(history) <= HistoryMax
    /\ \A i \in 1..Len(history) :
           /\ history[i] # <<>>
           /\ StripWhite(history[i]) = history[i]
           /\ \A j \in 1..Len(history) : history[i] = history[j] => i = j
    /\ last.op = "get_input" =>
           IF last.raised \/ last.results = <<<<>>>>
           THEN history = last.pre
           ELSE IF \E i \in 1..Len(last.pre) : last.pre[i] = last.results[1]
           THEN history = last.pre
           ELSE IF Len(last.pre) < HistoryMax
           THEN history = Append(last.pre, last.results[1])
           ELSE history = Append(Tail(last.pre), last.results[1])

\* with 100 entries in the history one more command was entered: the
\* oldest entry went, the others moved up, the new one is the last
C28_Witness ==
    /\ Entered
    /\ Len(last.pre) = HistoryMax
    /\ Len(history) = HistoryMax
    /\ last.results[1] = IntStr(HistoryMax + 1)
    /\ history[HistoryMax] = last.results[1]
    /\ history[1] = last.pre[2]
    /\ \A i \in 1..Len(history) : history[i] # last.pre[1]

\* --------------------------------------------------------------------- C29
\* the number of triple-quote delimiters in the first k lines read, joined
Delimiters(k) == CountTriple(JoinLines(SubSeq(last.inputs, 1, k)))

\* the call ended because a read of the terminal raised
ReadFailed == ~last.calls[Len(last.calls)].ok

\* how the reading of lines went, whatever is then returned: while the
\* lines read hold an odd number of delimiters another line is read; the
\* call is over at the first line that makes the number even, or when a
\* read raises.
ReadsUntilClosed ==
    /\ reading.pc = "more" =>
           /\ Len(reading.reads) >= 1
           /\ CountTriple(JoinLines(LinesOf(reading.reads))) % 2 = 1
    /\ last.op = "get_input" =>
           /\ Len(last.calls) = Len(last.inputs) + (IF ReadFailed THEN 1 ELSE 0)
           /\ \A k \in 1..(Len(last.inputs) - 1) : Delimiters(k) % 2 = 1
           /\ IF ReadFailed
              THEN /\ last.raised <=> last.inputs = <<>>
                   /\ last.raised => last.exc = "KeyboardInterrupt"
                   /\ ~last.raised => Delimiters(Len(last.inputs)) % 2 = 1
              ELSE /\ ~last.raised
                   /\ Len(last.inputs) >= 1
                   /\ Delimiters(Len(last.inputs)) % 2 = 0

\* C29 as stated: get_input reads on while the joined lines hold an odd
\* number of triple-quote delimiters and returns once the number is even; a
\* read that raises during continuation ends the call, which returns the
\* joined text of the lines read; a read that raises on the first line
\* makes the call raise KeyboardInterrupt; a first line with an even number
\* is returned as it is, no other line being read.
C29_ReturnsJoinedText ==
    /\ ReadsUntilClosed
    /\ (Entered /\ ReadFailed) => last.results = <<JoinLines(last.inputs)>>

\* C29, with what is returned put right: the text returned is the joined
\* text of the lines read with the blanks at its two ends removed.
C29_ReturnsStrippedJoinedText ==
    /\ ReadsUntilClosed
    /\ Entered => last.results = <<StripWhite(JoinLines(last.inputs))>>

\* a first line that opens a literal, a line of blanks, and then the end of
\* input: the open text comes back without the newline and the blanks
C29_Witness ==
    /\ Entered
    /\ ReadFailed
    /\ last.inputs = <<<<"\"","\"","\"","a">>, <<" ">>>>
    /\ last.results = <<<<"\"","\"","\"","a">>>>
    /\ last.calls[3].exc = "EOFError"
=============================================================================
